---- MODULE Spec2Model ----
(***************************************************************************)
(* The parsing-and-reconciliation pipeline of the Mexico City growth tool: *)
(* four source reads, compile_data, calculate_growth_rates and             *)
(* calculate_cagr, as run by city_growth_analysis.py,                      *)
(* mexico_city_data_compiler.py and mexico_city_dashboard.py.              *)
(*                                                                         *)
(* Text is a sequence of one-character strings.  A float is a record:      *)
(*   [k |-> "nan"]                      numpy.nan                          *)
(*   [k |-> "inf", s |-> 1 or -1]       +inf, -inf                         *)
(*   [k |-> "num", n |-> n, d |-> d]    the rational n/d, d > 0, reduced   *)
(*   [k |-> "irr", n, d, r, a, b]       a * (n/d)^(1/r) + b, an r-th root  *)
(*                                      that is no rational               *)
(* Arithmetic is exact: rounding of binary floating point is not modelled, *)
(* and zero carries no sign.                                               *)
(***************************************************************************)
EXTENDS Integers, Sequences, FiniteSets, TLC

----------------------------------------------------------------------------
(* Integer helpers *)

Abs(i) == IF i < 0 THEN -i ELSE i

Max(a, b) == IF a >= b THEN a ELSE b

RECURSIVE Gcd(_, _)
Gcd(a, b) == IF b = 0 THEN a ELSE Gcd(b, a % b)

RECURSIVE IPow(_, _)
IPow(b, e) == IF e = 0 THEN 1 ELSE b * IPow(b, e - 1)

(* b^e <= a, for b >= 0 and a >= 0, with no intermediate product above a *)
RECURSIVE LeqPow(_, _, _)
LeqPow(b, e, a) ==
    IF e = 0 THEN 1 <= a
    ELSE IF b = 0 THEN TRUE
    ELSE LeqPow(b, e - 1, a \div b)

(* the largest x in lo..hi with x^e <= a, given lo^e <= a *)
RECURSIVE RootSearch(_, _, _, _)
RootSearch(a, e, lo, hi) ==
    IF lo >= hi THEN lo
    ELSE LET mid == (lo + hi + 1) \div 2
         IN  IF LeqPow(mid, e, a) THEN RootSearch(a, e, mid, hi)
             ELSE RootSearch(a, e, lo, mid - 1)

IRoot(a, e) == RootSearch(a, e, 0, a)

IsPerfectPower(a, e) == IPow(IRoot(a, e), e) = a

----------------------------------------------------------------------------
(* Floats *)

NaN == [k |-> "nan"]

Inf(s) == [k |-> "inf", s |-> s]

Num(n, d) ==
    LET g == Gcd(Abs(n), Abs(d))
        s == IF d < 0 THEN -1 ELSE 1
    IN  [k |-> "num", n |-> s * (n \div g), d |-> s * (d \div g)]

Flt(i) == [k |-> "num", n |-> i, d |-> 1]

IsNaN(x) == x.k = "nan"

Sign(x) ==
    IF x.k = "inf" THEN x.s
    ELSE IF x.k = "num" THEN (IF x.n > 0 THEN 1 ELSE IF x.n < 0 THEN -1 ELSE 0)
    ELSE 0

(* x > 0 as Python evaluates it: any comparison with nan is False *)
Gt0(x) == x.k \in {"num", "inf"} /\ Sign(x) = 1

FNeg(x) ==
    IF x.k = "inf" THEN Inf(-x.s)
    ELSE IF x.k = "num" THEN Num(-x.n, x.d)
    ELSE x

FAdd(x, y) ==
    IF x.k = "nan" \/ y.k = "nan" THEN NaN
    ELSE IF x.k = "irr" /\ y.k = "num"
        THEN [x EXCEPT !.b = Num(x.b.n * y.d + y.n * x.b.d, x.b.d * y.d)]
    ELSE IF x.k = "irr" \/ y.k = "irr" THEN NaN
    ELSE IF x.k = "inf" /\ y.k = "inf" THEN (IF x.s = y.s THEN x ELSE NaN)
    ELSE IF x.k = "inf" THEN x
    ELSE IF y.k = "inf" THEN y
    ELSE Num(x.n * y.d + y.n * x.d, x.d * y.d)

FSub(x, y) == FAdd(x, FNeg(y))

FMul(x, y) ==
    IF x.k = "nan" \/ y.k = "nan" THEN NaN
    ELSE IF x.k = "irr" /\ y.k = "num"
        THEN [x EXCEPT !.a = Num(x.a.n * y.n, x.a.d * y.d),
                       !.b = Num(x.b.n * y.n, x.b.d * y.d)]
    ELSE IF x.k = "irr" \/ y.k = "irr" THEN NaN
    ELSE IF x.k = "inf" \/ y.k = "inf"
        THEN (IF Sign(x) * Sign(y) = 0 THEN NaN ELSE Inf(Sign(x) * Sign(y)))
    ELSE Num(x.n * y.n, x.d * y.d)

(* numpy float64 division: a zero divisor gives inf or nan, never an error *)
FDiv(x, y) ==
    IF x.k = "nan" \/ y.k = "nan" THEN NaN
    ELSE IF x.k = "irr" \/ y.k = "irr" THEN NaN
    ELSE IF x.k = "inf" /\ y.k = "inf" THEN NaN
    ELSE IF x.k = "inf" THEN (IF Sign(y) < 0 THEN Inf(-x.s) ELSE x)
    ELSE IF y.k = "inf" THEN Flt(0)
    ELSE IF y.n = 0 THEN (IF x.n = 0 THEN NaN ELSE Inf(Sign(x)))
    ELSE Num(x.n * y.d, x.d * y.n)

(* x ** (1/r) for an integer r >= 1, numpy float64 power: a negative base *)
(* under a fractional exponent gives nan                                  *)
FRoot(x, r) ==
    IF x.k = "nan" \/ x.k = "irr" THEN NaN
    ELSE IF r = 1 THEN x
    ELSE IF x.k = "inf" THEN Inf(1)
    ELSE IF x.n < 0 THEN NaN
    ELSE IF IsPerfectPower(x.n, r) /\ IsPerfectPower(x.d, r)
        THEN Num(IRoot(x.n, r), IRoot(x.d, r))
    ELSE [k |-> "irr", n |-> x.n, d |-> x.d, r |-> r, a |-> Flt(1), b |-> Flt(0)]

----------------------------------------------------------------------------
(* Text *)

(* the characters of the model's texts, in code-point order; "e'" and "A'" *)
(* stand for e-acute (U+00E9) and A-acute (U+00C1)                         *)
Alphabet ==
    << " ", "+", ",", "-", ".", "0", "1", "2", "3", "4", "5", "6", "7", "8", "9",
       "C", "I", "M", "N", "P", "Q", "T", "V", "Z",
       "a", "b", "c", "d", "e", "i", "l", "m", "n", "o",
       "p", "r", "s", "t", "u", "x", "y", "A'", "e'" >>

CodePoint(c) == CHOOSE i \in 1..Len(Alphabet) : Alphabet[i] = c

Digits == <<"0", "1", "2", "3", "4", "5", "6", "7", "8", "9">>

IsDigit(c) == \E i \in 1..Len(Digits) : Digits[i] = c

DigitValue(c) == (CHOOSE i \in 1..Len(Digits) : Digits[i] = c) - 1

(* int(text) for a text of decimal digits *)
RECURSIVE ParseInt(_)
ParseInt(t) ==
    IF t = <<>> THEN 0
    ELSE 10 * ParseInt(SubSeq(t, 1, Len(t) - 1)) + DigitValue(t[Len(t)])

(* str(i) for 0 <= i, as any f-string or astype(str) writes an integer *)
RECURSIVE IntText(_)
IntText(i) ==
    IF i < 10 THEN <<Digits[i + 1]>>
    ELSE IntText(i \div 10) \o <<Digits[(i % 10) + 1]>>

StartsWith(t, prefix) ==
    Len(t) >= Len(prefix) /\ SubSeq(t, 1, Len(prefix)) = prefix

(* str.replace(old, new): every occurrence, left to right, not overlapping *)
RECURSIVE StrReplace(_, _, _)
StrReplace(t, old, new) ==
    IF t = <<>> THEN <<>>
    ELSE IF StartsWith(t, old)
        THEN new \o StrReplace(SubSeq(t, Len(old) + 1, Len(t)), old, new)
    ELSE <<t[1]>> \o StrReplace(Tail(t), old, new)

(* str.strip(): the blanks at both ends removed *)
RECURSIVE Strip(_)
Strip(t) ==
    IF t = <<>> THEN <<>>
    ELSE IF t[1] = " " THEN Strip(Tail(t))
    ELSE IF t[Len(t)] = " " THEN Strip(SubSeq(t, 1, Len(t) - 1))
    ELSE t

(* the position of the first c in t, or Len(t) + 1 *)
RECURSIVE IndexOf(_, _)
IndexOf(t, c) ==
    IF t = <<>> THEN 1 ELSE IF t[1] = c THEN 1 ELSE 1 + IndexOf(Tail(t), c)

(* str.split()[0] of a text that str.strip() has left with a character: *)
(* the characters before its first blank                               *)
FirstWord(t) == SubSeq(t, 1, IndexOf(t, " ") - 1)

AllDigits(t) == \A i \in 1..Len(t) : IsDigit(t[i])

ValueError == [k |-> "error"]

(* float(text) for a text without exponent and without underscore: a sign, *)
(* then inf or nan, or digits with at most one point among them; for any   *)
(* other text float() raises ValueError                                    *)
ParseFloat(text) ==
    LET t == Strip(text)
        signed == t # <<>> /\ t[1] \in {"+", "-"}
        s == IF signed /\ t[1] = "-" THEN -1 ELSE 1
        body == IF signed THEN Tail(t) ELSE t
        dot == IndexOf(body, ".")
        whole == SubSeq(body, 1, dot - 1)
        fraction == SubSeq(body, dot + 1, Len(body))
    IN  IF body = <<"i", "n", "f">> THEN Inf(s)
        ELSE IF body = <<"n", "a", "n">> THEN NaN
        ELSE IF AllDigits(whole) /\ AllDigits(fraction) /\ Len(whole) + Len(fraction) >= 1
            THEN Num(s * ParseInt(whole \o fraction), IPow(10, Len(fraction)))
        ELSE ValueError

(* Python's str ordering: lexicographic by code point *)
RECURSIVE StrLess(_, _)
StrLess(a, b) ==
    IF b = <<>> THEN FALSE
    ELSE IF a = <<>> THEN TRUE
    ELSE IF a[1] = b[1] THEN StrLess(Tail(a), Tail(b))
    ELSE CodePoint(a[1]) < CodePoint(b[1])

(* the elements of a finite set of texts, ascending *)
RECURSIVE SortedTexts(_)
SortedTexts(S) ==
    IF S = {} THEN <<>>
    ELSE LET m == CHOOSE x \in S : \A y \in S \ {x} : StrLess(x, y)
         IN  <<m>> \o SortedTexts(S \ {m})

(* the elements of a finite set of integers, ascending *)
RECURSIVE SortedInts(_)
SortedInts(S) ==
    IF S = {} THEN <<>>
    ELSE LET m == CHOOSE x \in S : \A y \in S : x <= y
         IN  <<m>> \o SortedInts(S \ {m})

Range(q) == {q[i] : i \in 1..Len(q)}

(* every ordering of a finite set, as sequences without repetition *)
Orderings(S) ==
    {q \in [1..Cardinality(S) -> S] : \A i, j \in 1..Cardinality(S) : q[i] = q[j] => i = j}

----------------------------------------------------------------------------
(* Literals of the source *)

CiudadDe == <<"C", "i", "u", "d", "a", "d", " ", "d", "e", " ">>

AreasMetropolitanas ==
    <<"A'", "r", "e", "a", "s", " ", "m", "e", "t", "r", "o", "p", "o", "l", "i", "t", "a", "n", "a", "s">>

HoursPerMonth == 160

Percent == 100

----------------------------------------------------------------------------
(* pandas / dict lookups *)

EmptySeries == << >>

(* dict.get(city, pd.Series()) *)
DictGet(map, city) == IF city \in DOMAIN map THEN map[city] ELSE EmptySeries

(* 0 for a label that the series lacks *)
SeriesGet_ZeroDefault(series, tp) == IF tp \in DOMAIN series THEN series[tp] ELSE Flt(0)

(* Series.get(tp, np.nan) on a series whose index has no repeated label *)
SeriesGet(series, tp) == IF tp \in DOMAIN series THEN series[tp] ELSE NaN

(* mean of a column of a group, NaN cells skipped; nan when none is left *)
RECURSIVE Sum(_)
Sum(q) == IF q = <<>> THEN Flt(0) ELSE FAdd(q[1], Sum(Tail(q)))

NotNaN(x) == ~IsNaN(x)

(* every cell counted, a NaN cell as 0 *)
Mean_NullAsZero(q) ==
    LET kept == SelectSeq(q, NotNaN)
    IN  FDiv(Sum(kept), Flt(Len(q)))

(* the first cell of the group that is not NaN *)
Mean_FirstValue(q) ==
    LET kept == SelectSeq(q, NotNaN)
    IN  IF kept = <<>> THEN NaN ELSE kept[1]

Mean(q) ==
    LET kept == SelectSeq(q, NotNaN)
    IN  IF kept = <<>> THEN NaN ELSE FDiv(Sum(kept), Flt(Len(kept)))

----------------------------------------------------------------------------
(* compile_data *)

(* re.match(r'(\d{4})Q(\d)', tp): anchored at the start of tp only *)
ReMatch(tp) ==
    /\ Len(tp) >= 6
    /\ \A i \in 1..4 : IsDigit(tp[i])
    /\ tp[5] = "Q"
    /\ IsDigit(tp[6])

(* a month of 40 hours *)
MonthlySalary_WeekHours(salary_value) ==
    IF ~IsNaN(salary_value) THEN FMul(salary_value, Flt(40)) ELSE NaN

MonthlySalary(salary_value) ==
    IF ~IsNaN(salary_value) THEN FMul(salary_value, Flt(HoursPerMonth)) ELSE NaN

(* the operands of the division exchanged *)
RealWage_Swapped(monthly_salary, index_value) ==
    IF ~IsNaN(monthly_salary) /\ ~IsNaN(index_value)
        THEN FDiv(index_value, monthly_salary)
    ELSE NaN

RealWage(monthly_salary, index_value) ==
    IF ~IsNaN(monthly_salary) /\ ~IsNaN(index_value)
        THEN FDiv(monthly_salary, index_value)
    ELSE NaN

(* the city's own name looked up before its name without "Ciudad de " *)
HousingIndex_FullNameFirst(city, tp, housing_cost_data) ==
    LET city_simple_name == StrReplace(city, CiudadDe, <<>>)
    IN  IF city \in DOMAIN housing_cost_data
            THEN SeriesGet(housing_cost_data[city], tp)
        ELSE IF city_simple_name \in DOMAIN housing_cost_data
            THEN SeriesGet(housing_cost_data[city_simple_name], tp)
        ELSE NaN

(* an index of 0 for a city that the housing map does not hold *)
HousingIndex_ZeroWhenAbsent(city, tp, housing_cost_data) ==
    LET city_simple_name == StrReplace(city, CiudadDe, <<>>)
    IN  IF city_simple_name \in DOMAIN housing_cost_data
            THEN SeriesGet(housing_cost_data[city_simple_name], tp)
        ELSE IF city \in DOMAIN housing_cost_data
            THEN SeriesGet(housing_cost_data[city], tp)
        ELSE Flt(0)

HousingIndex(city, tp, housing_cost_data) ==
    LET city_simple_name == StrReplace(city, CiudadDe, <<>>)
    IN  IF city_simple_name \in DOMAIN housing_cost_data
            THEN SeriesGet(housing_cost_data[city_simple_name], tp)
        ELSE IF city \in DOMAIN housing_cost_data
            THEN SeriesGet(housing_cost_data[city], tp)
        ELSE NaN

(* the dictionary appended for one city and one matching time point *)
CompileRow(city, tp, employment_data, salary_data, population_data, housing_cost_data) ==
    LET salary_value == SeriesGet(DictGet(salary_data, city), tp)
        index_value == HousingIndex(city, tp, housing_cost_data)
        monthly_salary == MonthlySalary(salary_value)
    IN  [city |-> city,
         time_point |-> tp,
         year |-> ParseInt(SubSeq(tp, 1, 4)),
         quarter |-> ParseInt(SubSeq(tp, 6, 6)),
         employment_rate |-> SeriesGet(DictGet(employment_data, city), tp),
         hourly_salary |-> salary_value,
         population |-> SeriesGet(DictGet(population_data, city), tp),
         housing_index |-> index_value,
         monthly_salary |-> monthly_salary,
         real_wage |-> RealWage(monthly_salary, index_value)]

(* the inner loop: the rows of one city, one per matching time point *)
RECURSIVE CityRows(_, _, _, _, _, _)
CityRows(city, tps, employment_data, salary_data, population_data, housing_cost_data) ==
    IF tps = <<>> THEN <<>>
    ELSE (IF ReMatch(tps[1])
             THEN <<CompileRow(city, tps[1], employment_data, salary_data,
                               population_data, housing_cost_data)>>
          ELSE <<>>)
         \o CityRows(city, Tail(tps), employment_data, salary_data,
                     population_data, housing_cost_data)

(* the cities that all three maps hold *)
AllCities_InEveryMap(employment_data, salary_data, population_data) ==
    DOMAIN employment_data \cap DOMAIN salary_data \cap DOMAIN population_data

(* the keys of the employment map alone *)
AllCities_EmploymentOnly(employment_data, salary_data, population_data) ==
    DOMAIN employment_data

AllCities(employment_data, salary_data, population_data) ==
    DOMAIN employment_data \cup DOMAIN salary_data \cup DOMAIN population_data

SkippedCity(city) == city = AreasMetropolitanas \/ city = <<>>

(* compile_data, with the set all_cities iterated in the order `order` *)
RECURSIVE compile_data(_, _, _, _, _, _)
compile_data(employment_data, salary_data, population_data, housing_cost_data, tps, order) ==
    IF order = <<>> THEN <<>>
    ELSE (IF SkippedCity(order[1]) THEN <<>>
          ELSE CityRows(order[1], tps, employment_data, salary_data,
                        population_data, housing_cost_data))
         \o compile_data(employment_data, salary_data, population_data,
                         housing_cost_data, tps, Tail(order))

----------------------------------------------------------------------------
(* calculate_growth_rates and calculate_cagr *)

Column(rows, field) == [i \in 1..Len(rows) |-> rows[i][field]]

(* data.groupby(['city', 'year']).agg('mean').reset_index(): one row per *)
(* (city, year) of the table, sorted by city and then by year             *)
GroupRows(data, city, year) ==
    LET InGroup(r) == r.city = city /\ r.year = year
    IN  SelectSeq(data, InGroup)

YearlyRow(data, city, year) ==
    LET g == GroupRows(data, city, year)
    IN  [city |-> city,
         year |-> year,
         employment_rate |-> Mean(Column(g, "employment_rate")),
         monthly_salary |-> Mean(Column(g, "monthly_salary")),
         real_wage |-> Mean(Column(g, "real_wage")),
         population |-> Mean(Column(g, "population")),
         housing_index |-> Mean(Column(g, "housing_index"))]

CitiesOf(data) == {data[i].city : i \in 1..Len(data)}

YearsOf(data, city) == {data[i].year : i \in {j \in 1..Len(data) : data[j].city = city}}

RECURSIVE YearlyRowsOfCity(_, _, _)
YearlyRowsOfCity(data, city, years) ==
    IF years = <<>> THEN <<>>
    ELSE <<YearlyRow(data, city, years[1])>> \o YearlyRowsOfCity(data, city, Tail(years))

RECURSIVE YearlyRowsOfCities(_, _)
YearlyRowsOfCities(data, cities) ==
    IF cities = <<>> THEN <<>>
    ELSE YearlyRowsOfCity(data, cities[1], SortedInts(YearsOf(data, cities[1])))
         \o YearlyRowsOfCities(data, Tail(cities))

YearlyData(data) == YearlyRowsOfCities(data, SortedTexts(CitiesOf(data)))

(* yearly_data['city'].unique(): the cities in order of first appearance *)
RECURSIVE Unique(_)
Unique(q) ==
    IF q = <<>> THEN <<>>
    ELSE LET front == Unique(SubSeq(q, 1, Len(q) - 1))
         IN  IF q[Len(q)] \in Range(front) THEN front ELSE Append(front, q[Len(q)])

(* yearly_data[yearly_data['city'] == city].sort_values('year') *)
RECURSIVE SortByYear(_)
SortByYear(rows) ==
    IF rows = <<>> THEN <<>>
    ELSE LET i == CHOOSE i \in 1..Len(rows) :
                      /\ \A j \in 1..Len(rows) : rows[i].year <= rows[j].year
                      /\ \A j \in 1..(i - 1) : rows[j].year # rows[i].year
             rest == SubSeq(rows, 1, i - 1) \o SubSeq(rows, i + 1, Len(rows))
         IN  <<rows[i]>> \o SortByYear(rest)

CityData(yearly_data, city) ==
    LET OfCity(r) == r.city = city
    IN  SortByYear(SelectSeq(yearly_data, OfCity))

Analysis == "city_growth_analysis"

Compiler == "mexico_city_data_compiler"

Dashboard == "mexico_city_dashboard"

Sample == "mexico_city_sample"

DataSample == "data_sample"

(* the scripts that read the four files, and the scripts that generate *)
(* their table                                                         *)
FileScripts == {Analysis, Compiler, Dashboard}

SampleScripts == {Sample, DataSample}

Scripts == FileScripts \cup SampleScripts

(* the growth as a fraction, not multiplied by 100 *)
GrowthRate_Fraction(curr, prev) ==
    IF ~IsNaN(prev) /\ Gt0(prev) THEN FSub(FDiv(curr, prev), Flt(1)) ELSE NaN

(* ((curr / prev) - 1) * 100 if not np.isnan(prev) and prev > 0 else np.nan *)
GrowthRate(curr, prev) ==
    IF ~IsNaN(prev) /\ Gt0(prev)
        THEN FMul(FSub(FDiv(curr, prev), Flt(1)), Flt(100))
    ELSE NaN

(* ((curr / prev) - 1) * 100 of mexico_city_sample.py and data_sample.py, *)
(* which test neither np.isnan(prev) nor prev > 0                         *)
SampleGrowthRate(curr, prev) == FMul(FSub(FDiv(curr, prev), Flt(1)), Flt(100))

(* the growth rate as the script `copy` computes it *)
CopyGrowthRate(copy, curr, prev) ==
    IF copy \in SampleScripts THEN SampleGrowthRate(curr, prev) ELSE GrowthRate(curr, prev)

GrowthRecord(copy, city, prev_year, curr_year) ==
    [city |-> city,
     year |-> curr_year.year,
     avg_employment_rate |-> curr_year.employment_rate,
     avg_monthly_salary |-> curr_year.monthly_salary,
     avg_real_wage |-> curr_year.real_wage,
     avg_population |-> curr_year.population,
     avg_housing_index |-> curr_year.housing_index,
     population_growth |->
         CopyGrowthRate(copy, curr_year.population, prev_year.population),
     real_wage_growth |->
         CopyGrowthRate(copy, curr_year.real_wage, prev_year.real_wage),
     nominal_wage_growth |->
         CopyGrowthRate(copy, curr_year.monthly_salary, prev_year.monthly_salary)]

(* for i in range(2, len(city_data)): the first pair of years left out *)
CityGrowth_FromSecondPair(copy, city, city_data) ==
    [i \in 1..(Len(city_data) - 2) |->
        GrowthRecord(copy, city, city_data[i + 1], city_data[i + 2])]

(* a record only for a year whose row follows the row of the year before *)
CityGrowth_ConsecutiveYears(copy, city, city_data) ==
    LET pairs == [i \in 1..(Len(city_data) - 1) |->
                     [record |-> GrowthRecord(copy, city, city_data[i], city_data[i + 1]),
                      gap |-> city_data[i + 1].year - city_data[i].year]]
        Consecutive(x) == x.gap = 1
        kept == SelectSeq(pairs, Consecutive)
    IN  [i \in 1..Len(kept) |-> kept[i].record]

(* for i in range(1, len(city_data)) *)
CityGrowth(copy, city, city_data) ==
    [i \in 1..(Len(city_data) - 1) |->
        GrowthRecord(copy, city, city_data[i], city_data[i + 1])]

RECURSIVE GrowthOfCities(_, _, _)
GrowthOfCities(copy, yearly_data, cities) ==
    IF cities = <<>> THEN <<>>
    ELSE CityGrowth(copy, cities[1], CityData(yearly_data, cities[1]))
         \o GrowthOfCities(copy, yearly_data, Tail(cities))

(* calculate_growth_rates of the script `copy` *)
calculate_growth_rates(copy, data) ==
    LET yearly_data == YearlyData(data)
    IN  GrowthOfCities(copy, yearly_data, Unique(Column(yearly_data, "city")))

(* the number of calendar years of the window, both ends counted *)
Span_Inclusive(start, end) == IF end > start THEN end - start + 1 ELSE 1

(* years = end_year - start_year if end_year > start_year else 1 *)
Span(start, end) == IF end > start THEN end - start ELSE 1

(* (last / first) ** (1/years) - 1 if not np.isnan(first) and first > 0 *)
(* else np.nan                                                          *)
CagrRate(last, first, years) ==
    IF ~IsNaN(first) /\ Gt0(first)
        THEN FSub(FRoot(FDiv(last, first), years), Flt(1))
    ELSE NaN

(* the dictionary city_growth_analysis.py appends: the rates as computed *)
AnalysisCagrRecord(city, first_year, last_year, start, end) ==
    LET years == Span(start, end)
    IN  [city |-> city,
         start_population |-> first_year.population,
         end_population |-> last_year.population,
         start_real_wage |-> first_year.real_wage,
         end_real_wage |-> last_year.real_wage,
         start_nominal_wage |-> first_year.monthly_salary,
         end_nominal_wage |-> last_year.monthly_salary,
         years |-> years,
         population_cagr |-> CagrRate(last_year.population, first_year.population, years),
         real_wage_cagr |-> CagrRate(last_year.real_wage, first_year.real_wage, years),
         nominal_wage_cagr |->
             CagrRate(last_year.monthly_salary, first_year.monthly_salary, years)]

(* the dictionary mexico_city_data_compiler.py appends: the rates * 100 *)
CompilerCagrRecord(city, first_year, last_year, start, end) ==
    LET years == Span(start, end)
    IN  [city |-> city,
         start_year |-> start,
         end_year |-> end,
         years |-> years,
         population_cagr |->
             FMul(CagrRate(last_year.population, first_year.population, years),
                  Flt(Percent)),
         real_wage_cagr |->
             FMul(CagrRate(last_year.real_wage, first_year.real_wage, years),
                  Flt(Percent)),
         nominal_wage_cagr |->
             FMul(CagrRate(last_year.monthly_salary, first_year.monthly_salary, years),
                  Flt(Percent))]

(* the dictionary mexico_city_dashboard.py appends: the rates * 100 *)
DashboardCagrRecord(city, first_year, last_year, start, end) ==
    LET years == Span(start, end)
    IN  [city |-> city,
         start_year |-> start,
         end_year |-> end,
         start_population |-> first_year.population,
         end_population |-> last_year.population,
         start_real_wage |-> first_year.real_wage,
         end_real_wage |-> last_year.real_wage,
         start_nominal_wage |-> first_year.monthly_salary,
         end_nominal_wage |-> last_year.monthly_salary,
         years |-> years,
         population_cagr |->
             FMul(CagrRate(last_year.population, first_year.population, years),
                  Flt(Percent)),
         real_wage_cagr |->
             FMul(CagrRate(last_year.real_wage, first_year.real_wage, years),
                  Flt(Percent)),
         nominal_wage_cagr |->
             FMul(CagrRate(last_year.monthly_salary, first_year.monthly_salary, years),
                  Flt(Percent))]

(* (last / first) ** (1/years) - 1 of mexico_city_sample.py and            *)
(* data_sample.py, with years = end_year - start_year and no test of      *)
(* first; years is not 0 here, 1/years having raised ZeroDivisionError    *)
SampleCagrRate(last, first, years) ==
    LET ratio == FDiv(last, first)
    IN  IF years >= 1 THEN FSub(FRoot(ratio, years), Flt(1))
        ELSE FSub(FDiv(Flt(1), FRoot(ratio, -years)), Flt(1))

(* the dictionary mexico_city_sample.py appends: the rates * 100 *)
SampleCagrRecord(city, first_year, last_year, start, end) ==
    LET years == end - start
    IN  [city |-> city,
         start_year |-> start,
         end_year |-> end,
         years |-> years,
         population_cagr |->
             FMul(SampleCagrRate(last_year.population, first_year.population, years),
                  Flt(Percent)),
         real_wage_cagr |->
             FMul(SampleCagrRate(last_year.real_wage, first_year.real_wage, years),
                  Flt(Percent)),
         nominal_wage_cagr |->
             FMul(SampleCagrRate(last_year.monthly_salary, first_year.monthly_salary,
                                 years),
                  Flt(Percent))]

(* the dictionary data_sample.py appends: the rates as computed *)
DataSampleCagrRecord(city, first_year, last_year, start, end) ==
    LET years == end - start
    IN  [city |-> city,
         start_population |-> first_year.population,
         end_population |-> last_year.population,
         start_real_wage |-> first_year.real_wage,
         end_real_wage |-> last_year.real_wage,
         start_nominal_wage |-> first_year.monthly_salary,
         end_nominal_wage |-> last_year.monthly_salary,
         years |-> years,
         population_cagr |->
             SampleCagrRate(last_year.population, first_year.population, years),
         real_wage_cagr |->
             SampleCagrRate(last_year.real_wage, first_year.real_wage, years),
         nominal_wage_cagr |->
             SampleCagrRate(last_year.monthly_salary, first_year.monthly_salary, years)]

CagrRecord(copy, city, first_year, last_year, start, end) ==
    IF copy = Analysis THEN AnalysisCagrRecord(city, first_year, last_year, start, end)
    ELSE IF copy = Compiler THEN CompilerCagrRecord(city, first_year, last_year, start, end)
    ELSE IF copy = Dashboard
        THEN DashboardCagrRecord(city, first_year, last_year, start, end)
    ELSE IF copy = Sample THEN SampleCagrRecord(city, first_year, last_year, start, end)
    ELSE DataSampleCagrRecord(city, first_year, last_year, start, end)

(* the window without its last year *)
FilteredData_EndExcluded(yearly_data, start, end) ==
    LET InWindow(r) == r.year >= start /\ r.year < end
    IN  SelectSeq(yearly_data, InWindow)

(* the window with the year after its last *)
FilteredData_EndExtended(yearly_data, start, end) ==
    LET InWindow(r) == r.year >= start /\ r.year <= end + 1
    IN  SelectSeq(yearly_data, InWindow)

(* yearly_data[(year >= start_year) & (year <= end_year)] *)
FilteredData(yearly_data, start, end) ==
    LET InWindow(r) == r.year >= start /\ r.year <= end
    IN  SelectSeq(yearly_data, InWindow)

RECURSIVE CagrOfCities(_, _, _, _, _)
CagrOfCities(copy, filtered_data, cities, start, end) ==
    IF cities = <<>> THEN <<>>
    ELSE LET city_data == CityData(filtered_data, cities[1])
         IN  (IF Len(city_data) >= 2
                  THEN <<CagrRecord(copy, cities[1], city_data[1],
                                    city_data[Len(city_data)], start, end)>>
              ELSE <<>>)
             \o CagrOfCities(copy, filtered_data, Tail(cities), start, end)

(* calculate_cagr of the script `copy` *)
calculate_cagr(copy, data, start, end) ==
    LET filtered_data == FilteredData(YearlyData(data), start, end)
    IN  CagrOfCities(copy, filtered_data, Unique(Column(filtered_data, "city")), start, end)

(* 1/years raises ZeroDivisionError: in mexico_city_sample.py and            *)
(* data_sample.py, for a city with two rows in the window and years equal 0 *)
RaisesZeroDivision(copy, data, start, end) ==
    LET filtered_data == FilteredData(YearlyData(data), start, end)
    IN  /\ copy \in SampleScripts
        /\ end - start = 0
        /\ \E city \in Range(Column(filtered_data, "city")) :
               Len(CityData(filtered_data, city)) >= 2

(* data.sort_values('year', inplace=True) *)
DataOnReturn_SortedInPlace(data) == SortByYear(data)

(* the frame that the caller passed, when calculate_growth_rates or        *)
(* calculate_cagr returns: groupby, the boolean filters and sort_values    *)
(* give new frames, and no statement assigns into data                     *)
DataOnReturn(data) == data

----------------------------------------------------------------------------
(* The parsers *)

ZM == <<"Z", "M">>

ZMPrefix == <<"Z", "M", " ">>

ValleMexico == <<"V", "a", "l", "l", "e", " ", "M", "e'", "x", "i", "c", "o">>

PueblaTlax == <<"P", "u", "e", "b", "l", "a", "T", "l", "a", "x">>

Mexico == <<"M", "e'", "x", "i", "c", "o">>

Monterrey == <<"M", "o", "n", "t", "e", "r", "r", "e", "y">>

Puebla == <<"P", "u", "e", "b", "l", "a">>

CiudadDeMexico == CiudadDe \o Mexico

CiudadDeMonterrey == CiudadDe \o Monterrey

CiudadDePuebla == CiudadDe \o Puebla

NoAplica == <<"N", "o", " ", "a", "p", "l", "i", "c", "a">>

(* the comma of a decimal left in place *)
ParseCell_CommaKept(cell) ==
    LET text == Strip(cell)
        value == ParseFloat(text)
    IN  IF text = NoAplica THEN NaN
        ELSE IF value = ValueError THEN NaN
        ELSE value

(* the value appended for one cell: np.nan for "No aplica" and for a text *)
(* that float() rejects, float(text.replace(',', '.')) otherwise          *)
ParseCell(cell) ==
    LET text == Strip(cell)
        value == ParseFloat(StrReplace(text, <<",">>, <<".">>))
    IN  IF text = NoAplica THEN NaN
        ELSE IF value = ValueError THEN NaN
        ELSE value

ParseCells(cells) == [i \in 1..Len(cells) |-> ParseCell(cells[i])]

(* f"{year}Q{quarter}" *)
TimePoint(year, quarter) == IntText(year) \o <<"Q">> \o quarter

(* pd.Series(values, index=time_points), the index having no repeated label *)
MakeSeries(values, index) ==
    [tp \in Range(index) |-> values[CHOOSE i \in 1..Len(index) : index[i] = tp]]

(* time_points: one token for every column whose year cell and quarter cell *)
(* both hold a text, the columns taken from left to right; the two header   *)
(* rows have the same number of cells                                       *)
RECURSIVE HeaderTimePoints(_, _)
HeaderTimePoints(years, quarters) ==
    IF years = <<>> THEN <<>>
    ELSE (IF Strip(years[1]) # <<>> /\ Strip(quarters[1]) # <<>>
              THEN <<Strip(years[1]) \o <<"Q">> \o FirstWord(Strip(quarters[1]))>>
          ELSE <<>>)
         \o HeaderTimePoints(Tail(years), Tail(quarters))

(* a row of more cells than time points kept, its first cells taken *)
read_excel_html_table_LongRowsKept(file) ==
    LET time_points == HeaderTimePoints(file.years, file.quarters)
        kept == {city_name \in DOMAIN file.rows :
                    /\ Len(file.rows[city_name]) >= 1
                    /\ city_name # <<>>
                    /\ city_name # AreasMetropolitanas
                    /\ Len(file.rows[city_name]) >= Len(time_points)}
    IN  [city_data |-> [city_name \in kept |->
                           MakeSeries(ParseCells(file.rows[city_name]), time_points)],
         time_points |-> time_points]

(* read_excel_html_table on a file that opens and parses.  file.years and   *)
(* file.quarters are the texts of the cells of rows 6 and 7 after their     *)
(* first cell, file.rows maps the first cell of each later row to the texts *)
(* of its other cells.                                                      *)
read_excel_html_table(file) ==
    LET time_points == HeaderTimePoints(file.years, file.quarters)
        kept == {city_name \in DOMAIN file.rows :
                    /\ Len(file.rows[city_name]) >= 1
                    /\ city_name # <<>>
                    /\ city_name # AreasMetropolitanas
                    /\ Len(file.rows[city_name]) = Len(time_points)}
    IN  [city_data |-> [city_name \in kept |->
                           MakeSeries(ParseCells(file.rows[city_name]), time_points)],
         time_points |-> time_points]

HousingCityName(zm) ==
    LET city_name == StrReplace(zm, ZMPrefix, <<>>)
    IN  IF city_name = ValleMexico THEN CiudadDeMexico
        ELSE IF city_name = PueblaTlax THEN CiudadDePuebla
        ELSE city_name

(* the series of one ZM: its rows' year + 'Q' + quarter, and their Indice *)
HousingSeries(zm_data, zm) ==
    LET OfZm(r) == r.Global = zm
        zm_rows == SelectSeq(zm_data, OfZm)
        time_points == [i \in 1..Len(zm_rows) |->
                           TimePoint(zm_rows[i].Year, IntText(zm_rows[i].Trimestre))]
    IN  MakeSeries(Column(zm_rows, "Indice"), time_points)

(* result[city_name] = ...: a later ZM of the same city name overwrites *)
RECURSIVE HousingResult(_, _)
HousingResult(zm_data, zm_names) ==
    IF zm_names = <<>> THEN <<>>
    ELSE LET front == HousingResult(zm_data, SubSeq(zm_names, 1, Len(zm_names) - 1))
             zm == zm_names[Len(zm_names)]
             city_name == HousingCityName(zm)
         IN  [c \in DOMAIN front \cup {city_name} |->
                 IF c = city_name THEN HousingSeries(zm_data, zm) ELSE front[c]]

(* read_housing_cost on a file that opens and parses; file.rows are the *)
(* rows of the CSV                                                      *)
read_housing_cost(file) ==
    LET IsZm(r) == StartsWith(r.Global, ZM)
        zm_data == SelectSeq(file.rows, IsZm)
    IN  HousingResult(zm_data, Unique(Column(zm_data, "Global")))

----------------------------------------------------------------------------
(* The synthetic fallbacks.  The sample generators write five cities and   *)
(* twenty-four quarters of random numbers; the model keeps two cities and  *)
(* three quarters, and one random draw per call.                           *)

SampleDraws == {0, 1}

SampleTimePoints ==
    <<TimePoint(2015, <<"1">>), TimePoint(2015, <<"2">>), TimePoint(2016, <<"1">>)>>

SampleSeries(base, draw) ==
    MakeSeries([i \in 1..Len(SampleTimePoints) |-> Flt(base + i + draw)], SampleTimePoints)

(* create_sample_data(file_type) of mexico_city_data_compiler.py *)
create_sample_data(source, draw) ==
    LET base == IF source = "employment" THEN 50
                ELSE IF source = "salary" THEN 30
                ELSE 2000000
    IN  [city_data |-> [c \in {CiudadDeMexico, CiudadDeMonterrey} |-> SampleSeries(base, draw)],
         time_points |-> SampleTimePoints]

(* the except branch of read_housing_cost of mexico_city_data_compiler.py *)
SampleHousingCost(draw) == [c \in {Mexico, Monterrey} |-> SampleSeries(90, draw)]

(* generate_sample_data() of mexico_city_sample.py *)
SampleRow(city, tp, draw) ==
    LET hourly_salary == Flt(35 + draw)
        housing_index == Flt(80 + draw)
        monthly_salary == FMul(hourly_salary, Flt(HoursPerMonth))
    IN  [city |-> city,
         time_point |-> tp,
         year |-> ParseInt(SubSeq(tp, 1, 4)),
         quarter |-> ParseInt(SubSeq(tp, 6, 6)),
         employment_rate |-> Flt(58 + draw),
         hourly_salary |-> hourly_salary,
         population |-> Flt(1500000 + draw),
         housing_index |-> housing_index,
         monthly_salary |-> monthly_salary,
         real_wage |-> FDiv(monthly_salary, housing_index)]

generate_sample_data(draw) ==
    [i \in 1..(2 * Len(SampleTimePoints)) |->
        SampleRow(IF i <= Len(SampleTimePoints) THEN CiudadDeMexico ELSE CiudadDeMonterrey,
                  SampleTimePoints[((i - 1) % Len(SampleTimePoints)) + 1], draw)]

(* create_sample_data() of data_sample.py: the same columns, a row for each *)
(* city and quarter, every value positive; the model gives it the numbers   *)
(* of generate_sample_data                                                  *)
data_sample_create_sample_data(draw) == generate_sample_data(draw)

----------------------------------------------------------------------------
(* The inputs: the four files and the CAGR window.  Init draws them from   *)
(* the reference files below with at most MaxFaults of them changed.       *)

MaxFaults == 1

Sources == {"employment", "salary", "population", "housing"}

TableSources == {"employment", "salary", "population"}

(* the cells of a row that holds these whole numbers *)
Cells(q) == [i \in 1..Len(q) |-> IntText(q[i])]

BlankRow == <<NoAplica, NoAplica, NoAplica, NoAplica>>

RefYears == <<IntText(2015), IntText(2016), IntText(2016), IntText(2017)>>

RefQuarters == <<<<"1">>, <<"1">>, <<"2">>, <<"1">>>>

(* 2015Q1, 2016Q1, 2016Q2, 2017Q1 *)
RefHeader == HeaderTimePoints(RefYears, RefQuarters)

RefEmployment ==
    [readable |-> TRUE,
     years |-> RefYears,
     quarters |-> RefQuarters,
     rows |-> [c \in {AreasMetropolitanas, CiudadDeMonterrey, CiudadDeMexico} |->
                 IF c = CiudadDeMonterrey
                     THEN <<IntText(60), <<"4", "5", ",", "2">>, IntText(62), IntText(63)>>
                 ELSE IF c = CiudadDeMexico
                     THEN <<IntText(58), IntText(59), NoAplica, IntText(60)>>
                 ELSE BlankRow]]

RefSalary ==
    [readable |-> TRUE,
     years |-> RefYears,
     quarters |-> RefQuarters,
     rows |-> [c \in {AreasMetropolitanas, CiudadDeMonterrey, CiudadDeMexico} |->
                 IF c = CiudadDeMonterrey THEN Cells(<<40, 42, 44, 45>>)
                 ELSE IF c = CiudadDeMexico
                     THEN <<NoAplica, IntText(45), IntText(45), IntText(50)>>
                 ELSE BlankRow]]

RefPopulation ==
    [readable |-> TRUE,
     years |-> RefYears,
     quarters |-> RefQuarters,
     rows |-> [c \in {AreasMetropolitanas, CiudadDeMonterrey, CiudadDeMexico} |->
                 IF c = CiudadDeMonterrey
                     THEN Cells(<<4000000, 4000000, 4200000, 4305000>>)
                 ELSE IF c = CiudadDeMexico
                     THEN Cells(<<16000000, 20000000, 20000000, 25000000>>)
                 ELSE BlankRow]]

HousingRow(global, year, quarter, indice) ==
    [Global |-> global, Year |-> year, Trimestre |-> quarter, Indice |-> indice]

Nacional == <<"N", "a", "c", "i", "o", "n", "a", "l">>

RefHousing ==
    [readable |-> TRUE,
     rows |-> <<HousingRow(Nacional, 2015, 1, Flt(90)),
                HousingRow(ZMPrefix \o Monterrey, 2015, 1, Flt(100)),
                HousingRow(ZMPrefix \o Monterrey, 2016, 1, Flt(105)),
                HousingRow(ZMPrefix \o Monterrey, 2016, 2, Flt(105)),
                HousingRow(ZMPrefix \o Monterrey, 2017, 1, Flt(120)),
                HousingRow(ZMPrefix \o ValleMexico, 2015, 1, Flt(150)),
                HousingRow(ZMPrefix \o ValleMexico, 2016, 1, Flt(160)),
                HousingRow(ZMPrefix \o ValleMexico, 2016, 2, NaN),
                HousingRow(ZMPrefix \o ValleMexico, 2017, 1, Flt(180)),
                HousingRow(ZMPrefix \o PueblaTlax, 2015, 1, Flt(80)),
                HousingRow(ZMPrefix \o PueblaTlax, 2016, 1, Flt(85))>>]

(* start_year = 2015, end_year = 2020 of the scripts *)
ScriptStartYear == 2015

ScriptEndYear == 2020

RefInput ==
    [files |-> [employment |-> RefEmployment, salary |-> RefSalary,
                population |-> RefPopulation, housing |-> RefHousing],
     start_year |-> ScriptStartYear,
     end_year |-> ScriptEndYear]

(* The faults: a file that cannot be read; a table whose header cells are  *)
(* blank; a table of fewer columns; a city without a row; a row with a     *)
(* cell too few or too many; a cell that is "No aplica", zero or negative, *)
(* or a text that is no number; a housing index that is null, zero or      *)
(* negative; another identifier in a housing row; other header cells over  *)
(* a column (a quarter in Roman numerals, a year outside the other years   *)
(* with a word after its quarter, a quarter of two digits, a quarter that  *)
(* no year has), in one table or in the three of them; a column whose year *)
(* cell is blank, the rows as long as the header or a cell shorter;        *)
(* another CAGR window.  Cell faults are put in the rows of one city and   *)
(* at a few positions only, the code treating every city and every column  *)
(* alike.                                                                  *)
HeaderCells(year, quarter) == [year |-> IntText(year), quarter |-> quarter]

OtherTimePoints ==
    {HeaderCells(2016, <<"I">>), HeaderCells(2018, <<"3", " ", "T">>),
     HeaderCells(2017, <<"1", "2">>)}

QuarterOutOfRange == HeaderCells(2016, <<"7">>)

OtherCells == {NoAplica, <<"0">>, <<"-", "1">>}

OtherTexts == {<<"n", ".", "d", ".">>, <<"1", ",", "5", ",", "2">>, <<" ", "7", ",", "2", "5", " ">>}

OtherIndices == {NaN, Flt(0), Flt(-1)}

OtherGlobals ==
    {ZMPrefix \o ZMPrefix \o Monterrey, ZM \o Tail(Monterrey), ZMPrefix \o Mexico}

OtherWindows == {<<2016, 2017>>, <<2015, 2017>>, <<2016, 2016>>, <<2017, 2015>>}

Faults ==
    {[kind |-> "unreadable", file |-> f] : f \in Sources}
    \cup {[kind |-> "blank_header", file |-> f] : f \in TableSources}
    \cup {[kind |-> "columns", file |-> "employment", count |-> n] : n \in 1..2}
    \cup {[kind |-> "drop_city", file |-> f, city |-> c] :
             f \in TableSources, c \in {CiudadDeMonterrey, CiudadDeMexico}}
    \cup {[kind |-> "drop_zm", zm |-> ZMPrefix \o z] : z \in {Monterrey, ValleMexico}}
    \cup {[kind |-> "cell", file |-> "salary", city |-> CiudadDeMonterrey,
           pos |-> i, value |-> v] : i \in 1..2, v \in OtherCells}
    \cup {[kind |-> "cell", file |-> "population", city |-> CiudadDeMonterrey,
           pos |-> 1, value |-> v] : v \in OtherCells}
    \cup {[kind |-> "cell", file |-> "employment", city |-> CiudadDeMonterrey,
           pos |-> 3, value |-> v] : v \in {NoAplica} \cup OtherTexts}
    \cup {[kind |-> "row_cells", file |-> f, city |-> CiudadDeMonterrey, more |-> n] :
             f \in {"employment", "salary"}, n \in {-1, 1}}
    \cup {[kind |-> "indice", row |-> i, value |-> v] : i \in 2..3, v \in OtherIndices}
    \cup {[kind |-> "global", row |-> 2, zm |-> z] : z \in OtherGlobals}
    \cup {[kind |-> "time_point", file |-> "employment", pos |-> i, tp |-> t] :
             i \in {2, Len(RefHeader)}, t \in OtherTimePoints}
    \cup {[kind |-> "time_point", file |-> "salary", pos |-> 2, tp |-> t] :
             t \in OtherTimePoints}
    \cup {[kind |-> "time_point", file |-> "employment", pos |-> 2, tp |-> QuarterOutOfRange]}
    \cup {[kind |-> "relabel", pos |-> Len(RefHeader), tp |-> HeaderCells(2018, <<"3">>)]}
    \cup {[kind |-> "blank_column", file |-> "employment", pos |-> 2, short |-> b] :
             b \in BOOLEAN}
    \cup {[kind |-> "window", start |-> w[1], end |-> w[2]] : w \in OtherWindows}

(* fn on the elements of S, written out pair by pair *)
RECURSIVE Restrict(_, _)
Restrict(fn, S) ==
    IF S = {} THEN <<>>
    ELSE LET x == CHOOSE y \in S : TRUE
         IN  (x :> fn[x]) @@ Restrict(fn, S \ {x})

(* n blank cells *)
RECURSIVE BlankCells(_)
BlankCells(n) == IF n = 0 THEN <<>> ELSE Append(BlankCells(n - 1), <<>>)

(* the first n elements of q, or all of q when it has fewer *)
Prefix(q, n) == SubSeq(q, 1, IF n < Len(q) THEN n ELSE Len(q))

(* the rows of a table with their first n cells *)
RECURSIVE PrefixRows(_, _, _)
PrefixRows(rows, S, n) ==
    IF S = {} THEN <<>>
    ELSE LET c == CHOOSE y \in S : TRUE
         IN  (c :> Prefix(rows[c], n)) @@ PrefixRows(rows, S \ {c}, n)

(* the rows of a table without their last cell *)
RECURSIVE ShortRows(_, _)
ShortRows(rows, S) ==
    IF S = {} THEN <<>>
    ELSE LET c == CHOOSE y \in S : TRUE
         IN  (c :> Prefix(rows[c], Len(rows[c]) - 1)) @@ ShortRows(rows, S \ {c})

NoRepeat(q) == Cardinality(Range(q)) = Len(q)

(* the header cells of a column of a table replaced, unless the column is  *)
(* not there or the table would have the same time point twice             *)
Relabel(in, file, pos, tp) ==
    LET changed == [in EXCEPT !.files[file].years[pos] = tp.year,
                              !.files[file].quarters[pos] = tp.quarter]
    IN  IF /\ pos <= Len(in.files[file].years)
           /\ NoRepeat(HeaderTimePoints(changed.files[file].years,
                                        changed.files[file].quarters))
            THEN changed
        ELSE in

ApplyFault(in, f) ==
    IF f.kind = "unreadable"
        THEN [in EXCEPT !.files[f.file].readable = FALSE]
    ELSE IF f.kind = "blank_header"
        THEN [in EXCEPT !.files[f.file].years = BlankCells(Len(@)),
                        !.files[f.file].quarters = BlankCells(Len(@))]
    ELSE IF f.kind = "columns"
        THEN [in EXCEPT !.files[f.file].years = Prefix(@, f.count),
                        !.files[f.file].quarters = Prefix(@, f.count),
                        !.files[f.file].rows = PrefixRows(@, DOMAIN @, f.count)]
    ELSE IF f.kind = "blank_column"
        THEN IF f.pos <= Len(in.files[f.file].years)
                 THEN [in EXCEPT !.files[f.file].years[f.pos] = <<>>,
                                 !.files[f.file].rows =
                                     IF f.short
                                         THEN ShortRows(@, DOMAIN @)
                                     ELSE @]
             ELSE in
    ELSE IF f.kind = "relabel"
        THEN Relabel(Relabel(Relabel(in, "employment", f.pos, f.tp),
                             "salary", f.pos, f.tp),
                     "population", f.pos, f.tp)
    ELSE IF f.kind = "drop_city"
        THEN [in EXCEPT !.files[f.file].rows = Restrict(@, DOMAIN @ \ {f.city})]
    ELSE IF f.kind = "drop_zm"
        THEN LET Other(r) == r.Global # f.zm
             IN  [in EXCEPT !.files.housing.rows = SelectSeq(@, Other)]
    ELSE IF f.kind = "cell"
        THEN IF f.city \in DOMAIN in.files[f.file].rows
                     /\ f.pos <= Len(in.files[f.file].rows[f.city])
                 THEN [in EXCEPT !.files[f.file].rows[f.city][f.pos] = f.value]
             ELSE in
    ELSE IF f.kind = "row_cells"
        THEN IF f.city \in DOMAIN in.files[f.file].rows
                 THEN [in EXCEPT !.files[f.file].rows[f.city] =
                                     IF f.more = 1 THEN Append(@, IntText(1))
                                     ELSE Prefix(@, Len(@) - 1)]
             ELSE in
    ELSE IF f.kind = "global"
        THEN IF f.row <= Len(in.files.housing.rows)
                 THEN [in EXCEPT !.files.housing.rows[f.row].Global = f.zm]
             ELSE in
    ELSE IF f.kind = "indice"
        THEN IF f.row <= Len(in.files.housing.rows)
                 THEN [in EXCEPT !.files.housing.rows[f.row].Indice = f.value]
             ELSE in
    ELSE IF f.kind = "time_point"
        THEN Relabel(in, f.file, f.pos, f.tp)
    ELSE [in EXCEPT !.start_year = f.start, !.end_year = f.end]

RECURSIVE ApplyFaults(_, _)
ApplyFaults(in, fs) ==
    IF fs = <<>> THEN in ELSE ApplyFaults(ApplyFault(in, fs[1]), Tail(fs))

RECURSIVE FaultLists(_)
FaultLists(n) ==
    IF n = 0 THEN {<<>>}
    ELSE LET shorter == FaultLists(n - 1)
         IN  shorter \cup {Append(fs, f) : fs \in {x \in shorter : Len(x) = n - 1}, f \in Faults}

Inputs == {ApplyFaults(RefInput, fs) : fs \in FaultLists(MaxFaults)}

----------------------------------------------------------------------------
(* The scripts *)

MaxRuns == 2

VARIABLES
    script,             \* the script that runs
    files,              \* the four source files, by source
    start_year,         \* the arguments of calculate_cagr
    end_year,
    pc,                 \* the statement the script is at
    employment_data,    \* the script's variables of the same names; a
    time_points,        \*   dict or list not yet assigned is empty
    salary_data,
    population_data,
    housing_cost_data,
    has_real_data,      \* "unset", "True" or "False" (the dashboard's flag)
    city_data_df,       \* the unified table: [defined, rows]
    yearly_data_df,     \* the growth table
    cagr_data_df,       \* the CAGR table
    outcome,            \* by source, how its read ended: "none", "returned", "raised"
    origin,             \* by source, where its data came from: "unread", "file", "sample"
    calls,              \* the functions called so far in this run, in order
    run,                \* the number of this run of the script
    previous            \* the three tables of the run before

vars ==
    <<script, files, start_year, end_year, pc, employment_data, time_points,
      salary_data, population_data, housing_cost_data, has_real_data,
      city_data_df, yearly_data_df, cagr_data_df, outcome, origin, calls, run,
      previous>>

inputs == <<script, files, start_year, end_year>>

Undefined == [defined |-> FALSE, rows |-> <<>>]

Frame(rows) == [defined |-> TRUE, rows |-> rows]

NoTables == [city_data_df |-> Undefined, yearly_data_df |-> Undefined, cagr_data_df |-> Undefined]

FirstStatement(s) == IF s \in SampleScripts THEN "generate" ELSE "read_employment"

(* the state of a script at its first statement *)
Start ==
    /\ pc = FirstStatement(script)
    /\ employment_data = <<>>
    /\ time_points = <<>>
    /\ salary_data = <<>>
    /\ population_data = <<>>
    /\ housing_cost_data = <<>>
    /\ has_real_data = "unset"
    /\ city_data_df = Undefined
    /\ yearly_data_df = Undefined
    /\ cagr_data_df = Undefined
    /\ outcome = [s \in Sources |-> "none"]
    /\ origin = [s \in Sources |-> "unread"]
    /\ calls = <<>>

(* a script that reads no file is started beside the reference files *)
Init ==
    /\ script \in Scripts
    /\ \E in \in Inputs :
        /\ script \in SampleScripts => in.files = RefInput.files
        /\ files = in.files
        /\ start_year = in.start_year
        /\ end_year = in.end_year
    /\ Start
    /\ run = 1
    /\ previous = NoTables

(* the three table reads store their result in these variables *)
StoreTable(source, result) ==
    /\ employment_data' = IF source = "employment" THEN result.city_data ELSE employment_data
    /\ time_points' = IF source = "employment" THEN result.time_points ELSE time_points
    /\ salary_data' = IF source = "salary" THEN result.city_data ELSE salary_data
    /\ population_data' = IF source = "population" THEN result.city_data ELSE population_data

(* an exception leaves read_excel_html_table or read_housing_cost: it ends  *)
(* city_growth_analysis.py, and takes mexico_city_dashboard.py to its       *)
(* except branch, which builds the unified table from generate_sample_data  *)
(* and goes on to the statement `if has_real_data:`                         *)
ReadRaises(source) ==
    /\ script \in {Analysis, Dashboard}
    /\ outcome' = [outcome EXCEPT ![source] = "raised"]
    /\ \/ /\ script = Analysis
          /\ pc' = "crashed"
          /\ UNCHANGED <<city_data_df, has_real_data>>
       \/ /\ script = Dashboard
          /\ \E draw \in SampleDraws : city_data_df' = Frame(generate_sample_data(draw))
          /\ has_real_data' = "False"
          /\ pc' = "compile"
    /\ calls' = IF script = Dashboard
                    THEN calls \o <<IF source = "housing" THEN "read_housing_cost"
                                    ELSE "read_excel_html_table",
                                    "generate_sample_data">>
                ELSE Append(calls, IF source = "housing" THEN "read_housing_cost"
                                   ELSE "read_excel_html_table")
    /\ UNCHANGED <<origin, yearly_data_df, cagr_data_df, run, previous, inputs>>

(* data, time_points = read_excel_html_table(file) *)
ReadTable(source, at, next) ==
    /\ pc = at
    /\ \/ /\ files[source].readable
          /\ StoreTable(source, read_excel_html_table(files[source]))
          /\ outcome' = [outcome EXCEPT ![source] = "returned"]
          /\ origin' = [origin EXCEPT ![source] = "file"]
          /\ calls' = Append(calls, "read_excel_html_table")
          /\ pc' = next
          /\ UNCHANGED <<housing_cost_data, has_real_data, city_data_df, yearly_data_df,
                         cagr_data_df, run, previous, inputs>>
       \/ /\ ~files[source].readable
          /\ script = Compiler
          /\ \E draw \in SampleDraws : StoreTable(source, create_sample_data(source, draw))
          /\ outcome' = [outcome EXCEPT ![source] = "returned"]
          /\ origin' = [origin EXCEPT ![source] = "sample"]
          /\ calls' = Append(calls, "read_excel_html_table")
          /\ pc' = next
          /\ UNCHANGED <<housing_cost_data, has_real_data, city_data_df, yearly_data_df,
                         cagr_data_df, run, previous, inputs>>
       \/ /\ ~files[source].readable
          /\ ReadRaises(source)
          /\ UNCHANGED <<employment_data, time_points, salary_data, population_data,
                         housing_cost_data>>

ReadEmployment == ReadTable("employment", "read_employment", "read_salary")

ReadSalary == ReadTable("salary", "read_salary", "read_population")

ReadPopulation == ReadTable("population", "read_population", "read_housing")

(* housing_cost_data = read_housing_cost(file); in the dashboard the else *)
(* branch of the try statement then sets has_real_data                    *)
ReadHousing ==
    /\ pc = "read_housing"
    /\ \/ /\ files.housing.readable
          /\ housing_cost_data' = read_housing_cost(files.housing)
          /\ outcome' = [outcome EXCEPT !.housing = "returned"]
          /\ origin' = [origin EXCEPT !.housing = "file"]
          /\ has_real_data' = IF script = Dashboard THEN "True" ELSE has_real_data
          /\ calls' = Append(calls, "read_housing_cost")
          /\ pc' = "compile"
          /\ UNCHANGED <<employment_data, time_points, salary_data, population_data,
                         city_data_df, yearly_data_df, cagr_data_df, run, previous, inputs>>
       \/ /\ ~files.housing.readable
          /\ script = Compiler
          /\ \E draw \in SampleDraws : housing_cost_data' = SampleHousingCost(draw)
          /\ outcome' = [outcome EXCEPT !.housing = "returned"]
          /\ origin' = [origin EXCEPT !.housing = "sample"]
          /\ calls' = Append(calls, "read_housing_cost")
          /\ pc' = "compile"
          /\ UNCHANGED <<employment_data, time_points, salary_data, population_data,
                         has_real_data, city_data_df, yearly_data_df, cagr_data_df, run,
                         previous, inputs>>
       \/ /\ ~files.housing.readable
          /\ ReadRaises("housing")
          /\ UNCHANGED <<employment_data, time_points, salary_data, population_data,
                         housing_cost_data>>

(* city_data = generate_sample_data() of mexico_city_sample.py, and *)
(* city_data = create_sample_data() of data_sample.py              *)
Generate ==
    /\ pc = "generate"
    /\ \E draw \in SampleDraws :
          city_data_df' = Frame(IF script = Sample THEN generate_sample_data(draw)
                                ELSE data_sample_create_sample_data(draw))
    /\ calls' = Append(calls, IF script = Sample THEN "generate_sample_data"
                              ELSE "create_sample_data")
    /\ pc' = "growth"
    /\ UNCHANGED <<employment_data, time_points, salary_data, population_data,
                   housing_cost_data, has_real_data, yearly_data_df, cagr_data_df,
                   outcome, origin, run, previous, inputs>>

(* compile_data is called for every value of the flag *)
CompileCalled_Always(copy, flag) == TRUE

(* `if has_real_data:` of mexico_city_dashboard.py; the other scripts call *)
(* compile_data without a condition                                        *)
CompileCalled(copy, flag) == copy = Dashboard => flag = "True"

(* city_data_df = compile_data(...); the for loop over the set all_cities *)
(* visits the cities in an order that the hash seed of the run decides    *)
Compile ==
    /\ pc = "compile"
    /\ IF CompileCalled(script, has_real_data)
           THEN /\ \E order \in Orderings(AllCities(employment_data, salary_data,
                                                    population_data)) :
                      city_data_df' =
                          Frame(compile_data(employment_data, salary_data, population_data,
                                             housing_cost_data, time_points, order))
                /\ calls' = Append(calls, "compile_data")
       ELSE UNCHANGED <<city_data_df, calls>>
    /\ pc' = "growth"
    /\ UNCHANGED <<employment_data, time_points, salary_data, population_data,
                   housing_cost_data, has_real_data, yearly_data_df, cagr_data_df,
                   outcome, origin, run, previous, inputs>>

(* yearly_data_df = calculate_growth_rates(city_data_df); a table of no rows *)
(* has no columns, and data.groupby(['city', 'year']) raises KeyError, which *)
(* main() of mexico_city_data_compiler.py catches to return None             *)
Growth ==
    /\ pc = "growth"
    /\ calls' = Append(calls, "calculate_growth_rates")
    /\ \/ /\ city_data_df.rows # <<>>
          /\ yearly_data_df' = Frame(calculate_growth_rates(script, city_data_df.rows))
          /\ city_data_df' = Frame(DataOnReturn(city_data_df.rows))
          /\ pc' = "cagr"
       \/ /\ city_data_df.rows = <<>>
          /\ pc' = IF script = Compiler THEN "failed" ELSE "crashed"
          /\ UNCHANGED <<yearly_data_df, city_data_df>>
    /\ UNCHANGED <<employment_data, time_points, salary_data, population_data,
                   housing_cost_data, has_real_data, cagr_data_df,
                   outcome, origin, run, previous, inputs>>

(* cagr_data_df = calculate_cagr(city_data_df, start_year, end_year); the  *)
(* ZeroDivisionError of the copies without the guard ends data_sample.py,  *)
(* and main() of mexico_city_sample.py catches it to return None           *)
Cagr ==
    /\ pc = "cagr"
    /\ calls' = Append(calls, "calculate_cagr")
    /\ IF RaisesZeroDivision(script, city_data_df.rows, start_year, end_year)
           THEN /\ pc' = IF script = Sample THEN "failed" ELSE "crashed"
                /\ UNCHANGED <<cagr_data_df, city_data_df>>
       ELSE /\ cagr_data_df' =
                   Frame(calculate_cagr(script, city_data_df.rows, start_year, end_year))
            /\ city_data_df' = Frame(DataOnReturn(city_data_df.rows))
            /\ pc' = "done"
    /\ UNCHANGED <<employment_data, time_points, salary_data, population_data,
                   housing_cost_data, has_real_data, yearly_data_df,
                   outcome, origin, run, previous, inputs>>

(* the script is run again on the same files *)
Rerun ==
    /\ pc = "done"
    /\ run < MaxRuns
    /\ run' = run + 1
    /\ previous' = [city_data_df |-> city_data_df, yearly_data_df |-> yearly_data_df,
                    cagr_data_df |-> cagr_data_df]
    /\ pc' = FirstStatement(script)
    /\ employment_data' = <<>>
    /\ time_points' = <<>>
    /\ salary_data' = <<>>
    /\ population_data' = <<>>
    /\ housing_cost_data' = <<>>
    /\ has_real_data' = "unset"
    /\ city_data_df' = Undefined
    /\ yearly_data_df' = Undefined
    /\ cagr_data_df' = Undefined
    /\ outcome' = [s \in Sources |-> "none"]
    /\ origin' = [s \in Sources |-> "unread"]
    /\ calls' = <<>>
    /\ UNCHANGED inputs

Next ==
    \/ Generate
    \/ ReadEmployment
    \/ ReadSalary
    \/ ReadPopulation
    \/ ReadHousing
    \/ Compile
    \/ Growth
    \/ Cagr

Spec == Init /\ [][Next]_vars

NextRerun == Next \/ Rerun

SpecRerun == Init /\ [][NextRerun]_vars

(* calculate_growth_rates given the rows of the table in another order: two *)
(* neighbouring rows change places before the call, any number of times     *)
SwapRows(rows, i) == [rows EXCEPT ![i] = rows[i + 1], ![i + 1] = rows[i]]

Shuffle ==
    /\ pc = "growth"
    /\ \E i \in 1..(Len(city_data_df.rows) - 1) :
          city_data_df' = Frame(SwapRows(city_data_df.rows, i))
    /\ UNCHANGED <<pc, employment_data, time_points, salary_data, population_data,
                   housing_cost_data, has_real_data, yearly_data_df, cagr_data_df,
                   outcome, origin, calls, run, previous, inputs>>

(* the reference files with the employment table cut to its first three   *)
(* columns, so that every order of the six rows of the table is visited   *)
ShuffleInput ==
    ApplyFault(RefInput, [kind |-> "columns", file |-> "employment",
                          count |-> Len(RefHeader) - 1])

InitShuffle ==
    /\ script \in Scripts
    /\ files = IF script \in SampleScripts THEN RefInput.files ELSE ShuffleInput.files
    /\ Start
    /\ run = 1
    /\ previous = NoTables
    /\ start_year = ScriptStartYear
    /\ end_year = ScriptEndYear

NextShuffle == Next \/ Shuffle

SpecShuffle == InitShuffle /\ [][NextShuffle]_vars

----------------------------------------------------------------------------
(* Claims about compile_data *)

Compiled == city_data_df.defined /\ "compile_data" \in Range(calls)

Unified == city_data_df.rows

(* the value the salary source holds for a city and a time point, if any *)
HasValue(map, city, tp) ==
    /\ city \in DOMAIN map
    /\ tp \in DOMAIN map[city]
    /\ ~IsNaN(map[city][tp])

(* p = x * c for a float x that is a number and an integer c *)
IsMultiple(p, x, c) == p.k = "num" /\ p.n * x.d = c * x.n * p.d

(* q = x / y for floats x and y that are numbers, as IEEE 754 divides *)
IsQuotient(q, x, y) ==
    IF y.n # 0 THEN q.k = "num" /\ q.n * y.n * x.d = x.n * y.d * q.d
    ELSE IF x.n = 0 THEN IsNaN(q)
    ELSE q = Inf(IF x.n > 0 THEN 1 ELSE -1)

(* C1: in every record that compile_data emits, monthly_salary is the      *)
(* salary source's value for the record's city and time point times 160    *)
(* when that value exists and is not null, and is null otherwise.          *)
C1_MonthlySalary ==
    Compiled =>
        \A i \in 1..Len(Unified) :
            LET r == Unified[i]
            IN  IF HasValue(salary_data, r.city, r.time_point)
                    THEN /\ r.hourly_salary = salary_data[r.city][r.time_point]
                         /\ IsMultiple(r.monthly_salary, r.hourly_salary, 160)
                ELSE IsNaN(r.hourly_salary) /\ IsNaN(r.monthly_salary)

(* an hourly salary of 42 gives a monthly salary of 6720, and a record of *)
(* the same table has no salary                                           *)
C1_Witness ==
    /\ Compiled
    /\ \E i \in 1..Len(Unified) :
          Unified[i].hourly_salary = Flt(42) /\ Unified[i].monthly_salary = Flt(6720)
    /\ \E i \in 1..Len(Unified) : IsNaN(Unified[i].monthly_salary)

(* C2: in every record that compile_data emits, real_wage is null when     *)
(* housing_index or monthly_salary is null, and is monthly_salary divided  *)
(* by housing_index otherwise.                                             *)
C2_RealWage ==
    Compiled =>
        \A i \in 1..Len(Unified) :
            LET r == Unified[i]
            IN  IF IsNaN(r.housing_index) \/ IsNaN(r.monthly_salary)
                    THEN IsNaN(r.real_wage)
                ELSE IsQuotient(r.real_wage, r.monthly_salary, r.housing_index)

(* 6720 over an index of 105 gives 64; one record has a salary and no     *)
(* index, another an index and no salary                                  *)
C2_Witness ==
    /\ Compiled
    /\ \E i \in 1..Len(Unified) :
          /\ Unified[i].monthly_salary = Flt(6720)
          /\ Unified[i].housing_index = Flt(105)
          /\ Unified[i].real_wage = Flt(64)
    /\ \E i \in 1..Len(Unified) :
          /\ ~IsNaN(Unified[i].monthly_salary)
          /\ IsNaN(Unified[i].housing_index)
          /\ IsNaN(Unified[i].real_wage)
    /\ \E i \in 1..Len(Unified) :
          /\ IsNaN(Unified[i].monthly_salary)
          /\ ~IsNaN(Unified[i].housing_index)
          /\ IsNaN(Unified[i].real_wage)

(* the city universe of compile_data *)
Universe ==
    (DOMAIN employment_data \cup DOMAIN salary_data \cup DOMAIN population_data)
        \ {AreasMetropolitanas, <<>>}

RecordsOf(city, tp) ==
    {i \in 1..Len(Unified) : Unified[i].city = city /\ Unified[i].time_point = tp}

(* the token begins with four digits, the letter Q and a digit *)
BeginsYearQDigit(tp) ==
    /\ Len(tp) >= 6
    /\ Range(SubSeq(tp, 1, 4)) \subseteq Range(Digits)
    /\ SubSeq(tp, 5, 5) = <<"Q">>
    /\ tp[6] \in Range(Digits)

----------------------------------------------------------------------------
(* Claims about unreadable files and about repeated runs *)

Called(function) == function \in Range(calls)

(* C4: read_excel_html_table, called on a file that cannot be opened or    *)
(* parsed, ends in an error that reaches its caller; it returns no series  *)
(* map and no list of time points, its own synthetic data included.        *)
C4_UnreadableTableRaises ==
    \A source \in TableSources :
        (outcome[source] # "none" /\ ~files[source].readable) =>
            /\ outcome[source] = "raised"
            /\ origin[source] = "unread"

(* C5: when one of the four source files cannot be read, the run produces  *)
(* no unified table: compile_data is not executed, and so never on sources *)
(* of which some come from files and others were substituted.              *)
C5_NoCompileAfterUnreadableFile ==
    (\E source \in Sources : outcome[source] # "none" /\ ~files[source].readable) =>
        ~Called("compile_data")

(* C6: a second run of a script on the same four readable files ends with  *)
(* the unified, growth and CAGR tables of the first run, rows in the same  *)
(* order.                                                                  *)
C6_SameTablesOnRerun ==
    (run > 1 /\ pc = "done" /\ \A source \in Sources : files[source].readable) =>
        /\ city_data_df = previous.city_data_df
        /\ yearly_data_df = previous.yearly_data_df
        /\ cagr_data_df = previous.cagr_data_df

----------------------------------------------------------------------------
(* Claims about calculate_growth_rates *)

GrowthDone == Called("calculate_growth_rates") /\ yearly_data_df.defined

GrowthTable == yearly_data_df.rows

(* the mean of a field over the city's records of a year, nulls skipped *)
YearlyMean(city, year, field) == Mean(Column(GroupRows(Unified, city, year), field))

(* the year of the row before the row of `year` among the city's yearly rows *)
PreviousYear(city, year) ==
    LET earlier == {y \in YearsOf(Unified, city) : y < year}
    IN  CHOOSE y \in earlier : \A z \in earlier : z <= y

GrowthFields ==
    {[rate |-> "population_growth", of |-> "population"],
     [rate |-> "real_wage_growth", of |-> "real_wage"],
     [rate |-> "nominal_wage_growth", of |-> "monthly_salary"]}

(* C7: every growth figure of a growth record is ((mean of the record's    *)
(* year / mean of the year before) - 1) * 100 when the mean of the year    *)
(* before is present and strictly positive, and is null otherwise.         *)
C7_GrowthFormula ==
    GrowthDone =>
        \A i \in 1..Len(GrowthTable) : \A f \in GrowthFields :
            LET g == GrowthTable[i]
                curr == YearlyMean(g.city, g.year, f.of)
                prev == YearlyMean(g.city, PreviousYear(g.city, g.year), f.of)
            IN  IF ~IsNaN(prev) /\ Gt0(prev)
                    THEN g[f.rate] = FMul(FSub(FDiv(curr, prev), Flt(1)), Flt(100))
                ELSE IsNaN(g[f.rate])

(* a yearly population of 4,000,000 followed by 4,100,000 gives 2.5, and a *)
(* year whose nominal wage follows a year with none has a null growth      *)
C7_Witness ==
    /\ GrowthDone
    /\ \E i \in 1..Len(GrowthTable) :
          LET g == GrowthTable[i]
          IN  /\ YearlyMean(g.city, PreviousYear(g.city, g.year), "population")
                     = Flt(4000000)
              /\ g.avg_population = Flt(4100000)
              /\ g.population_growth = Num(5, 2)
    /\ \E i \in 1..Len(GrowthTable) :
          LET g == GrowthTable[i]
          IN  /\ IsNaN(YearlyMean(g.city, PreviousYear(g.city, g.year), "monthly_salary"))
              /\ ~IsNaN(g.avg_monthly_salary)
              /\ IsNaN(g.nominal_wage_growth)

GrowthRecordsOf(city) == {i \in 1..Len(GrowthTable) : GrowthTable[i].city = city}

(* C8: a city with n distinct years in the unified table has n - 1 growth  *)
(* records, one for each of its years but the smallest; with a single year *)
(* it has none.                                                            *)
C8_OneRecordPerLaterYear ==
    GrowthDone =>
        \A city \in CitiesOf(Unified) :
            LET years == YearsOf(Unified, city)
                first == CHOOSE y \in years : \A z \in years : y <= z
            IN  /\ Cardinality(GrowthRecordsOf(city)) = Cardinality(years) - 1
                /\ {GrowthTable[i].year : i \in GrowthRecordsOf(city)} = years \ {first}

(* a city of three years with the records of its second and third year,   *)
(* beside it a city of the same table                                     *)
C8_Witness ==
    /\ GrowthDone
    /\ Cardinality(CitiesOf(Unified)) = 2
    /\ \A city \in CitiesOf(Unified) :
          /\ YearsOf(Unified, city) = {2015, 2016, 2017}
          /\ {GrowthTable[i].year : i \in GrowthRecordsOf(city)} = {2016, 2017}
    /\ Len(GrowthTable) = 4

(* a table whose cities have the single year 2015, and no growth record *)
C8_SingleYear ==
    /\ GrowthDone
    /\ \E city \in CitiesOf(Unified) : YearsOf(Unified, city) = {2015}
    /\ GrowthTable = <<>>

----------------------------------------------------------------------------
(* Claims about calculate_cagr *)

CagrDone == Called("calculate_cagr") /\ cagr_data_df.defined

CagrTable == cagr_data_df.rows

InWindow(city) == {y \in YearsOf(Unified, city) : start_year <= y /\ y <= end_year}

(* the yearly mean of the city's first row in the window, and of its last *)
FirstValue(city, field) ==
    LET first == CHOOSE y \in InWindow(city) : \A z \in InWindow(city) : y <= z
    IN  YearlyMean(city, first, field)

LastValue(city, field) ==
    LET last == CHOOSE y \in InWindow(city) : \A z \in InWindow(city) : z <= y
    IN  YearlyMean(city, last, field)

CagrFields ==
    {[rate |-> "population_cagr", of |-> "population"],
     [rate |-> "real_wage_cagr", of |-> "real_wage"],
     [rate |-> "nominal_wage_cagr", of |-> "monthly_salary"]}

(* C9: in each of the three scripts run on readable files, every CAGR      *)
(* figure with a present, positive start value is the percentage           *)
(* 100 * ((end value / start value) ** (1 / span) - 1).                    *)
C9_CagrIsPercentage ==
    (CagrDone /\ \A source \in Sources : files[source].readable) =>
        \A i \in 1..Len(CagrTable) : \A f \in CagrFields :
            LET r == CagrTable[i]
                first == FirstValue(r.city, f.of)
                last == LastValue(r.city, f.of)
            IN  (~IsNaN(first) /\ Gt0(first)) =>
                    r[f.rate] =
                        FMul(FSub(FRoot(FDiv(last, first), r.years), Flt(1)), Flt(100))

(* the factor that the script's copy of calculate_cagr applies to a rate *)
Scale == IF script \in {Analysis, DataSample} THEN 1 ELSE 100

(* rate = scale * (ratio ** (1 / span) - 1), for a ratio that is a number *)
IsRateOver(rate, ratio, span, scale) ==
    IF ratio.n < 0 /\ span > 1 THEN IsNaN(rate)
    ELSE IF rate.k = "irr"
        THEN /\ rate.n = ratio.n
             /\ rate.d = ratio.d
             /\ rate.r = span
             /\ ~(IsPerfectPower(ratio.n, span) /\ IsPerfectPower(ratio.d, span))
             /\ rate.a = Flt(scale)
             /\ rate.b = Flt(-scale)
    ELSE /\ rate.k = "num"
         /\ LET root == Num(rate.n + scale * rate.d, scale * rate.d)
            IN  IF span = 1 THEN root = ratio
                ELSE /\ root.n >= 0
                     /\ IPow(root.n, span) = ratio.n
                     /\ IPow(root.d, span) = ratio.d

(* C10: every record of calculate_cagr has years = max(end_year -          *)
(* start_year, 1); each of its CAGR figures is null when the value of the  *)
(* city's first row in the window is null or not strictly positive, and is *)
(* otherwise computed with the exponent 1 / years.                         *)
C10_SpanAndNullBase ==
    CagrDone =>
        \A i \in 1..Len(CagrTable) :
            LET r == CagrTable[i]
                span == Max(end_year - start_year, 1)
            IN  /\ r.years = span
                /\ \A f \in CagrFields :
                      LET first == FirstValue(r.city, f.of)
                          ratio == FDiv(LastValue(r.city, f.of), first)
                      IN  IF IsNaN(first) \/ ~Gt0(first) THEN IsNaN(r[f.rate])
                          ELSE IF IsNaN(ratio) THEN IsNaN(r[f.rate])
                          ELSE IF ratio.k = "inf" THEN r[f.rate] = Inf(1)
                          ELSE IsRateOver(r[f.rate], ratio, span, Scale)

(* over the window 2015-2020 a city whose first population is 0 has a     *)
(* null population CAGR, and a nominal-wage CAGR that is a fifth root      *)
C10_Witness ==
    /\ CagrDone
    /\ end_year - start_year = 5
    /\ \E i \in 1..Len(CagrTable) :
          LET r == CagrTable[i]
          IN  /\ r.years = 5
              /\ FirstValue(r.city, "population") = Flt(0)
              /\ IsNaN(r.population_cagr)
              /\ Gt0(FirstValue(r.city, "monthly_salary"))
              /\ r.nominal_wage_cagr.k = "irr"
              /\ r.nominal_wage_cagr.r = 5

(* a window of a single year apart, where the rate is the ratio less one *)
C10_SpanOfOne ==
    /\ CagrDone
    /\ end_year - start_year = 1
    /\ \E i \in 1..Len(CagrTable) : CagrTable[i].years = 1

CagrRecordsOf(city) == {i \in 1..Len(CagrTable) : CagrTable[i].city = city}

(* C11: calculate_cagr emits one record for each city that has two or more *)
(* yearly rows with start_year <= year <= end_year, and no record for any  *)
(* other city.                                                             *)
C11_OneRecordPerCityOfTwoYears ==
    CagrDone =>
        /\ \A city \in CitiesOf(Unified) :
              Cardinality(CagrRecordsOf(city)) =
                  IF Cardinality(InWindow(city)) >= 2 THEN 1 ELSE 0
        /\ \A i \in 1..Len(CagrTable) : CagrTable[i].city \in CitiesOf(Unified)

(* the window 2016-2017 over the years 2015, 2016 and 2017: the two rows   *)
(* at the bounds of the window are all a city has in it, and it has a      *)
(* record                                                                  *)
C11_Witness ==
    /\ CagrDone
    /\ start_year = 2016 /\ end_year = 2017
    /\ Len(CagrTable) = 2
    /\ \A city \in CitiesOf(Unified) :
          /\ YearsOf(Unified, city) = {2015, 2016, 2017}
          /\ InWindow(city) = {2016, 2017}
          /\ Cardinality(CagrRecordsOf(city)) = 1

(* a window of the single year 2016: every city has one row in it, and the *)
(* table is empty                                                          *)
C11_SingleYear ==
    /\ CagrDone
    /\ \E city \in CitiesOf(Unified) : Cardinality(InWindow(city)) = 1
    /\ CagrTable = <<>>

(* the years of the window in which the city has a value of the field *)
YearsWithData(city, field) ==
    {y \in InWindow(city) :
        ~IsNaN(YearlyMean(city, y, field)) /\ Gt0(YearlyMean(city, y, field))}

(* C12: after compile_data and calculate_cagr on readable files, a city    *)
(* that has a (positive) value of a metric in two or more years of the     *)
(* window has a record whose CAGR of that metric is not null, whether or   *)
(* not it has a value at the first or last year of the window.             *)
C12_CagrFromNearestYears ==
    (CagrDone /\ Compiled /\ \A source \in Sources : files[source].readable) =>
        \A city \in CitiesOf(Unified) : \A f \in CagrFields :
            Cardinality(YearsWithData(city, f.of)) >= 2 =>
                \E i \in CagrRecordsOf(city) : ~IsNaN(CagrTable[i][f.rate])

FirstYear(city) == CHOOSE y \in InWindow(city) : \A z \in InWindow(city) : y <= z

LastYear(city) == CHOOSE y \in InWindow(city) : \A z \in InWindow(city) : z <= y

(* C13: every CAGR of a record is the annual rate that compounds the value *)
(* of the city's first row in the window to the value of its last row in   *)
(* the window over the number of years between these two rows (as a        *)
(* fraction or as a percentage, as the script reports its rates).          *)
C13_CompoundsOverYearsBetweenRows ==
    CagrDone =>
        \A i \in 1..Len(CagrTable) : \A f \in CagrFields :
            LET r == CagrTable[i]
                first == FirstValue(r.city, f.of)
                ratio == FDiv(LastValue(r.city, f.of), first)
            IN  (~IsNaN(first) /\ Gt0(first) /\ ratio.k = "num") =>
                    IsRateOver(r[f.rate], ratio, LastYear(r.city) - FirstYear(r.city), Scale)

----------------------------------------------------------------------------
(* Claims about the lookups of compile_data *)

(* the city's name without "Ciudad de ", the first key of the housing lookup *)
SimpleName(city) == StrReplace(city, CiudadDe, <<>>)

(* the housing map holds the city under neither of the two keys *)
AbsentFromHousing(city) ==
    /\ SimpleName(city) \notin DOMAIN housing_cost_data
    /\ city \notin DOMAIN housing_cost_data

(* C14 as claimed: a city of the employment map that the housing map does  *)
(* not hold has, for every canonical time point, a record with a non-null  *)
(* employment_rate, a null housing_index and a null real_wage.             *)
C14_EmploymentWithoutHousing ==
    Compiled =>
        \A city \in DOMAIN employment_data \ {AreasMetropolitanas, <<>>} :
            AbsentFromHousing(city) =>
                \A tp \in Range(time_points) :
                    \E i \in RecordsOf(city, tp) :
                        /\ ~IsNaN(Unified[i].employment_rate)
                        /\ IsNaN(Unified[i].housing_index)
                        /\ IsNaN(Unified[i].real_wage)

(* C14 as amended: such a city has, for every canonical time point that    *)
(* begins with four digits, Q and a digit, a record whose employment_rate  *)
(* is the value of the employment map for the city and the time point,     *)
(* null where the map's value is null, and whose housing_index and         *)
(* real_wage are null.                                                     *)
C14_EmploymentValueWithoutHousing ==
    Compiled =>
        \A city \in DOMAIN employment_data \ {AreasMetropolitanas, <<>>} :
            AbsentFromHousing(city) =>
                \A tp \in {t \in Range(time_points) : BeginsYearQDigit(t)} :
                    /\ RecordsOf(city, tp) # {}
                    /\ \A i \in RecordsOf(city, tp) :
                          /\ Unified[i].employment_rate = employment_data[city][tp]
                          /\ IsNaN(Unified[i].housing_index)
                          /\ IsNaN(Unified[i].real_wage)

(* a city of the employment map without housing series, with a record that *)
(* has an employment rate and a record that has none, while another city   *)
(* of the table has a housing index                                        *)
C14_Witness ==
    /\ Compiled
    /\ \A source \in Sources : origin[source] = "file"
    /\ \E city \in DOMAIN employment_data :
          /\ AbsentFromHousing(city)
          /\ \E i \in 1..Len(Unified) :
                /\ Unified[i].city = city
                /\ ~IsNaN(Unified[i].employment_rate)
                /\ ~IsNaN(Unified[i].hourly_salary)
                /\ IsNaN(Unified[i].real_wage)
          /\ \E i \in 1..Len(Unified) :
                Unified[i].city = city /\ IsNaN(Unified[i].employment_rate)
    /\ \E i \in 1..Len(Unified) : ~IsNaN(Unified[i].housing_index)

(* C15 as claimed: the cities of compile_data's output are the keys of the *)
(* employment, salary and population maps, less the empty key and the      *)
(* reserved label.                                                         *)
C15_CitiesAreTheUniverse ==
    Compiled => CitiesOf(Unified) = Universe

(* C15 as amended: the cities of compile_data's output are the keys of the *)
(* employment, salary and population maps, less the empty key and the      *)
(* reserved label, when some canonical time point begins with four digits, *)
(* Q and a digit, and the output is empty otherwise; a key of the housing  *)
(* map that is in none of the three maps is no city of the output.         *)
C15_CitiesAreTheUniverseOfMatchingTimePoints ==
    Compiled =>
        /\ CitiesOf(Unified) =
              IF \E tp \in Range(time_points) : BeginsYearQDigit(tp) THEN Universe ELSE {}
        /\ \A key \in DOMAIN housing_cost_data :
              key \notin Universe => key \notin CitiesOf(Unified)

(* a city that the employment map lacks has rows, and Ciudad de Puebla,    *)
(* which only the housing map holds, has none                              *)
C15_Witness ==
    /\ Compiled
    /\ \A source \in Sources : origin[source] = "file"
    /\ \E city \in CitiesOf(Unified) : city \notin DOMAIN employment_data
    /\ CitiesOf(Unified) = {CiudadDeMonterrey, CiudadDeMexico}
    /\ CiudadDePuebla \in DOMAIN housing_cost_data

(* a table without header: the maps hold cities and the output has no row *)
C15_NoTimePoint ==
    /\ Compiled
    /\ time_points = <<>>
    /\ Universe # {}
    /\ Unified = <<>>

----------------------------------------------------------------------------
(* Claims about read_excel_html_table *)

(* the map that the script holds for a source *)
DataOf(source) ==
    IF source = "employment" THEN employment_data
    ELSE IF source = "salary" THEN salary_data
    ELSE population_data

(* the time points that the header rows of the source's table give *)
Header(source) == HeaderTimePoints(files[source].years, files[source].quarters)

(* the source has been read from its file *)
ReadFromFile(source) == outcome[source] = "returned" /\ origin[source] = "file"

(* the number that a cell's text writes, null for a text that writes none: *)
(* the texts of the model's tables, one by one                             *)
CellValue(cell) ==
    IF cell = NoAplica THEN NaN
    ELSE IF cell = <<"n", ".", "d", ".">> THEN NaN
    ELSE IF cell = <<"1", ",", "5", ",", "2">> THEN NaN
    ELSE IF cell = <<"4", "5", ",", "2">> THEN Num(452, 10)
    ELSE IF cell = <<" ", "7", ",", "2", "5", " ">> THEN Num(725, 100)
    ELSE IF cell = <<"-", "1">> THEN Flt(-1)
    ELSE Flt(ParseInt(cell))

(* C16: a table whose file opens is read without error, and every cell of  *)
(* a row that gives a series gives the series its own value: null for "No  *)
(* aplica" and for a text that is no number, the number otherwise, with a  *)
(* comma read as the decimal point; the other cells are not affected.      *)
C16_CellByCell ==
    \A source \in TableSources :
        /\ (outcome[source] # "none" /\ files[source].readable) => ReadFromFile(source)
        /\ ReadFromFile(source) =>
              \A city \in DOMAIN DataOf(source) :
                  \A i \in 1..Len(Header(source)) :
                      DataOf(source)[city][Header(source)[i]]
                          = CellValue(files[source].rows[city][i])

(* a row with the cells 60, "45,2", "n.d." and 63 gives 60, 45.2, null and *)
(* 63, beside a row with a "No aplica" cell that gives null                *)
C16_Witness ==
    /\ ReadFromFile("employment")
    /\ \E city \in DOMAIN employment_data :
          /\ files.employment.rows[city]
                 = <<IntText(60), <<"4", "5", ",", "2">>, <<"n", ".", "d", ".">>, IntText(63)>>
          /\ [i \in 1..4 |-> employment_data[city][time_points[i]]]
                 = <<Flt(60), Num(226, 5), NaN, Flt(63)>>
    /\ \E city \in DOMAIN employment_data :
          \E i \in 1..Len(time_points) :
              /\ files.employment.rows[city][i] = NoAplica
              /\ IsNaN(employment_data[city][time_points[i]])
              /\ \E j \in 1..Len(time_points) : ~IsNaN(employment_data[city][time_points[j]])

(* the rows of the table that give a series: a name that is neither empty  *)
(* nor the reserved label, and as many value cells as time points          *)
RowsWithSeries(file) ==
    {name \in DOMAIN file.rows :
        /\ name \notin {<<>>, AreasMetropolitanas}
        /\ Len(file.rows[name]) >= 1
        /\ Len(file.rows[name]) = Len(HeaderTimePoints(file.years, file.quarters))}

(* C17: every series of a table read from its file has one value for each  *)
(* time point of the table's time-point list and no other; a row whose     *)
(* number of value cells differs from the number of time points gives no   *)
(* series.                                                                 *)
C17_WholeRowsOnly ==
    \A source \in TableSources :
        ReadFromFile(source) =>
            /\ DOMAIN DataOf(source) = RowsWithSeries(files[source])
            /\ \A city \in DOMAIN DataOf(source) :
                  DOMAIN DataOf(source)[city] = Range(Header(source))
            /\ source = "employment" => time_points = Header(source)

(* a row with a cell too few or too many gives no series, and another row  *)
(* of the same table gives a series of four values                         *)
C17_Witness ==
    \E source \in TableSources :
        /\ ReadFromFile(source)
        /\ Len(Header(source)) = 4
        /\ \E name \in DOMAIN files[source].rows \ {AreasMetropolitanas} :
              /\ Len(files[source].rows[name]) # 4
              /\ name \notin DOMAIN DataOf(source)
        /\ \E city \in DOMAIN DataOf(source) :
              Cardinality(DOMAIN DataOf(source)[city]) = 4

(* a row of five cells under a header of four time points *)
C17_LongRow ==
    \E source \in TableSources :
        /\ ReadFromFile(source)
        /\ \E name \in DOMAIN files[source].rows :
              /\ Len(files[source].rows[name]) = Len(Header(source)) + 1
              /\ name \notin DOMAIN DataOf(source)

----------------------------------------------------------------------------
(* Claims about the housing index and read_housing_cost *)

(* the value of a series at a time point, null when the series lacks it *)
ValueAt(series, tp) == IF tp \in DOMAIN series THEN series[tp] ELSE NaN

(* C18: the housing_index of a record is decided by the series that the    *)
(* housing map holds under the city's name without "Ciudad de " when it    *)
(* holds one, by the series under the city's unmodified name when it holds *)
(* that one only, and is null when it holds neither; the series that       *)
(* decides gives its value at the record's time point, null if it has none.*)
C18_FirstKeyWins ==
    Compiled =>
        \A i \in 1..Len(Unified) :
            LET r == Unified[i]
            IN  r.housing_index =
                    IF SimpleName(r.city) \in DOMAIN housing_cost_data
                        THEN ValueAt(housing_cost_data[SimpleName(r.city)], r.time_point)
                    ELSE IF r.city \in DOMAIN housing_cost_data
                        THEN ValueAt(housing_cost_data[r.city], r.time_point)
                    ELSE NaN

(* the housing map holds both keys of a city: the record of a time point   *)
(* that only the series of the second key has is without index, and a      *)
(* record of another city gets its index from its only key                 *)
C18_Witness ==
    /\ Compiled
    /\ \E i \in 1..Len(Unified) :
          LET r == Unified[i]
          IN  /\ SimpleName(r.city) \in DOMAIN housing_cost_data
              /\ r.city \in DOMAIN housing_cost_data
              /\ r.time_point \notin DOMAIN housing_cost_data[SimpleName(r.city)]
              /\ r.time_point \in DOMAIN housing_cost_data[r.city]
              /\ ~IsNaN(housing_cost_data[r.city][r.time_point])
              /\ IsNaN(r.housing_index)
    /\ \E i \in 1..Len(Unified) :
          LET r == Unified[i]
          IN  /\ SimpleName(r.city) \in DOMAIN housing_cost_data
              /\ r.city \notin DOMAIN housing_cost_data
              /\ ~IsNaN(r.housing_index)

(* a city that the housing map holds under its unmodified name only *)
C18_SecondKey ==
    /\ Compiled
    /\ \E i \in 1..Len(Unified) :
          LET r == Unified[i]
          IN  /\ SimpleName(r.city) \notin DOMAIN housing_cost_data
              /\ r.city \in DOMAIN housing_cost_data
              /\ ~IsNaN(r.housing_index)

HousingFromFile == outcome.housing = "returned" /\ origin.housing = "file"

HousingRows == files.housing.rows

(* the identifier without its leading "ZM ", the two renamed literals      *)
(* replaced                                                                *)
CanonicalName(zm) ==
    LET rest == IF StartsWith(zm, ZMPrefix) THEN SubSeq(zm, Len(ZMPrefix) + 1, Len(zm)) ELSE zm
    IN  IF rest = ValleMexico THEN CiudadDeMexico
        ELSE IF rest = PueblaTlax THEN CiudadDePuebla
        ELSE rest

(* C19: the key of every identifier that begins with "ZM " is the          *)
(* identifier without that leading prefix, Valle Mexico and PueblaTlax     *)
(* renamed and every other remainder unchanged, so that identifiers with   *)
(* different remainders have different keys.                               *)
C19_LeadingPrefixOnly ==
    HousingFromFile =>
        \A i \in 1..Len(HousingRows) :
            StartsWith(HousingRows[i].Global, ZMPrefix) =>
                CanonicalName(HousingRows[i].Global) \in DOMAIN housing_cost_data

(* C20: the keys of the housing map come from the rows whose identifier    *)
(* begins with "ZM " (Z, M, space) and from no other row.                  *)
C20_KeptIffZMSpace ==
    HousingFromFile =>
        DOMAIN housing_cost_data =
            {HousingCityName(HousingRows[i].Global) :
                i \in {j \in 1..Len(HousingRows) : StartsWith(HousingRows[j].Global, ZMPrefix)}}

----------------------------------------------------------------------------
(* Claims about the time points of compile_data *)

(* the token is four digits, the letter Q and one digit, and nothing more *)
IsYearQDigit(tp) == Len(tp) = 6 /\ BeginsYearQDigit(tp)

(* C21: compile_data emits a record of a city of the universe for a time   *)
(* point of the canonical sequence if and only if the whole token is four  *)
(* digits, the letter Q and one digit.                                     *)
C21_RecordsIffWholeToken ==
    Compiled =>
        \A tp \in Range(time_points) : \A city \in Universe :
            RecordsOf(city, tp) # {} <=> IsYearQDigit(tp)

(* C22: every record that compile_data emits from a time-point sequence    *)
(* that read_excel_html_table returned has a quarter from 1 to 4.          *)
C22_QuarterFromOneToFour ==
    (Compiled /\ origin.employment = "file") =>
        \A i \in 1..Len(Unified) : Unified[i].quarter \in 1..4

----------------------------------------------------------------------------
(* Claims about the yearly aggregates *)

(* the non-null values of a field in the city's records of a year *)
QuarterlyValues(city, year, field) ==
    SelectSeq(Column(GroupRows(Unified, city, year), field), NotNaN)

(* the sum of a sequence of numbers, as the fraction <<n, d>> *)
RECURSIVE Total(_)
Total(q) ==
    IF q = <<>> THEN <<0, 1>>
    ELSE LET rest == Total(Tail(q))
         IN  <<q[1].n * rest[2] + rest[1] * q[1].d, q[1].d * rest[2]>>

(* avg is the arithmetic mean of the values: their sum over their number, *)
(* an infinity when one of them is that infinity, null when there is none *)
IsMeanOf(avg, values) ==
    IF values = <<>> THEN IsNaN(avg)
    ELSE IF \E i \in 1..Len(values) : values[i].k = "inf"
        THEN \E i \in 1..Len(values) : values[i].k = "inf" /\ avg = values[i]
    ELSE /\ avg.k = "num"
         /\ avg.n * Total(values)[2] * Len(values) = Total(values)[1] * avg.d

AggregateFields ==
    {[avg |-> "avg_employment_rate", start |-> "", end |-> "", of |-> "employment_rate"],
     [avg |-> "avg_housing_index", start |-> "", end |-> "", of |-> "housing_index"],
     [avg |-> "avg_population", start |-> "start_population", end |-> "end_population",
      of |-> "population"],
     [avg |-> "avg_real_wage", start |-> "start_real_wage", end |-> "end_real_wage",
      of |-> "real_wage"],
     [avg |-> "avg_monthly_salary", start |-> "start_nominal_wage",
      end |-> "end_nominal_wage", of |-> "monthly_salary"]}

(* C23: every yearly aggregate that a growth record or a CAGR record       *)
(* reports for a city and a year is the arithmetic mean of the non-null    *)
(* quarterly values of that city and year, and is null exactly when that   *)
(* year has no non-null quarterly value.                                   *)
C23_MeanOfNonNullQuarters ==
    /\ GrowthDone =>
          \A i \in 1..Len(GrowthTable) : \A f \in AggregateFields :
              LET g == GrowthTable[i]
                  values == QuarterlyValues(g.city, g.year, f.of)
              IN  /\ IsMeanOf(g[f.avg], values)
                  /\ IsNaN(g[f.avg]) <=> values = <<>>
    /\ CagrDone =>
          \A i \in 1..Len(CagrTable) : \A f \in AggregateFields :
              LET r == CagrTable[i]
                  first == QuarterlyValues(r.city, FirstYear(r.city), f.of)
                  last == QuarterlyValues(r.city, LastYear(r.city), f.of)
              IN  f.start \in DOMAIN r =>
                      /\ IsMeanOf(r[f.start], first)
                      /\ IsMeanOf(r[f.end], last)
                      /\ IsNaN(r[f.start]) <=> first = <<>>
                      /\ IsNaN(r[f.end]) <=> last = <<>>

(* a year with an employment rate of 59 in one quarter and none in the     *)
(* other has the mean 59; a year with no housing index in either quarter   *)
(* has a null mean; a CAGR record starts from a year whose only quarter    *)
(* has no salary                                                           *)
C23_Witness ==
    /\ GrowthDone /\ CagrDone
    /\ \E i \in 1..Len(GrowthTable) :
          LET g == GrowthTable[i]
          IN  /\ Len(GroupRows(Unified, g.city, g.year)) = 2
              /\ QuarterlyValues(g.city, g.year, "employment_rate") = <<Flt(59)>>
              /\ g.avg_employment_rate = Flt(59)
    /\ \E i \in 1..Len(GrowthTable) :
          LET g == GrowthTable[i]
          IN  /\ Len(GroupRows(Unified, g.city, g.year)) = 2
              /\ QuarterlyValues(g.city, g.year, "housing_index") = <<>>
              /\ Len(QuarterlyValues(g.city, g.year, "population")) = 2
              /\ IsNaN(g.avg_housing_index)
              /\ g.avg_population = Flt(4100000)
    /\ \E i \in 1..Len(CagrTable) :
          /\ "start_nominal_wage" \in DOMAIN CagrTable[i]
          /\ IsNaN(CagrTable[i].start_nominal_wage)
          /\ ~IsNaN(CagrTable[i].end_nominal_wage)

----------------------------------------------------------------------------
(* Claims about the order of the rows *)

RowBefore(a, b) ==
    \/ StrLess(a.city, b.city)
    \/ a.city = b.city /\ StrLess(a.time_point, b.time_point)

(* the rows of a set, by city and then by time point *)
RECURSIVE SortedRows(_)
SortedRows(S) ==
    IF S = {} THEN <<>>
    ELSE LET m == CHOOSE x \in S : \A y \in S \ {x} : RowBefore(x, y)
         IN  <<m>> \o SortedRows(S \ {m})

(* C24: the set of records that calculate_growth_rates returns for the     *)
(* unified table is the set it returns for the same rows in the order of   *)
(* city and time point, whatever the order of the rows of the table: the   *)
(* set is the same for every permutation of the rows.                      *)
C24_SameRecordsInEveryOrder ==
    GrowthDone =>
        Range(GrowthTable) =
            Range(calculate_growth_rates(script, SortedRows(Range(Unified))))

(* a table in which the rows of a city stand on both sides of a row of the *)
(* other city, and the second quarter of a year before the first           *)
C24_Witness ==
    /\ GrowthDone
    /\ Len(GrowthTable) = 2
    /\ \E i, j, k \in 1..Len(Unified) :
          /\ i < j /\ j < k
          /\ Unified[i].city = Unified[k].city
          /\ Unified[j].city # Unified[i].city
    /\ \E i, j \in 1..Len(Unified) :
          /\ i < j
          /\ Unified[i].city = Unified[j].city
          /\ Unified[i].year = Unified[j].year
          /\ Unified[i].quarter > Unified[j].quarter

----------------------------------------------------------------------------
(* Claims about the source fields of compile_data *)

SourceFields ==
    {[field |-> "employment_rate", source |-> "employment"],
     [field |-> "hourly_salary", source |-> "salary"],
     [field |-> "population", source |-> "population"]}

(* C25: every record of compile_data is of a time point of the employment  *)
(* parse; its employment_rate, hourly_salary and population are each the   *)
(* value that the source's map holds for the record's city at the record's *)
(* time point, and null when the map lacks the city or the city's series   *)
(* lacks the time point.                                                   *)
C25_FieldsFromTheirSources ==
    Compiled =>
        /\ ReadFromFile("employment") => time_points = Header("employment")
        /\ \A i \in 1..Len(Unified) :
              /\ Unified[i].time_point \in Range(time_points)
              /\ \A f \in SourceFields :
                    LET r == Unified[i]
                        map == DataOf(f.source)
                    IN  r[f.field] =
                            IF r.city \in DOMAIN map /\ r.time_point \in DOMAIN map[r.city]
                                THEN map[r.city][r.time_point]
                            ELSE NaN

(* the salary table has another time point over a column than the          *)
(* employment table: the record of a city at the employment table's time   *)
(* point has an employment rate and a population and no salary, though the *)
(* salary map holds the city                                               *)
C25_Witness ==
    /\ Compiled
    /\ \A source \in Sources : origin[source] = "file"
    /\ \E i \in 1..Len(Unified) :
          LET r == Unified[i]
          IN  /\ r.city \in DOMAIN salary_data
              /\ r.time_point \notin DOMAIN salary_data[r.city]
              /\ IsNaN(r.hourly_salary)
              /\ r.employment_rate = employment_data[r.city][r.time_point]
              /\ ~IsNaN(r.employment_rate)
              /\ ~IsNaN(r.population)

(* a city that one of the three maps lacks: its field of that source is *)
(* null in every record                                                 *)
C25_CityAbsent ==
    /\ Compiled
    /\ \E i \in 1..Len(Unified) :
          /\ Unified[i].city \notin DOMAIN population_data
          /\ Unified[i].city \in DOMAIN employment_data
          /\ IsNaN(Unified[i].population)
          /\ ~IsNaN(Unified[i].employment_rate)

----------------------------------------------------------------------------
(* Claims about the calls of calculate_growth_rates and calculate_cagr *)

----------------------------------------------------------------------------
(* Claims about the columns of read_excel_html_table *)

(* C27: in every series of a table read from its file, the value at the    *)
(* time point of a column (a column whose year cell and quarter cell both  *)
(* hold a text) is the value of the row's cell in that column, whether or  *)
(* not the header has columns with a blank cell.                           *)
C27_ValueFromTheColumnOfItsTimePoint ==
    \A source \in TableSources :
        ReadFromFile(source) =>
            \A city \in DOMAIN DataOf(source) :
                \A j \in 1..Len(files[source].years) :
                    LET year == Strip(files[source].years[j])
                        quarter == Strip(files[source].quarters[j])
                        tp == year \o <<"Q">> \o FirstWord(quarter)
                    IN  (year # <<>> /\ quarter # <<>>) =>
                            /\ j <= Len(files[source].rows[city])
                            /\ DataOf(source)[city][tp] = CellValue(files[source].rows[city][j])

----------------------------------------------------------------------------
(* Claims about the span of calculate_cagr *)

(* calculate_cagr has raised: the script stopped in it *)
CagrRaised == Called("calculate_cagr") /\ pc \in {"failed", "crashed"}

(* C28: calculate_cagr returns no record when end_year <= start_year; in   *)
(* every record it returns, years is end_year - start_year and at least 1; *)
(* and no copy of it, those without the guard included, raises             *)
(* ZeroDivisionError.                                                      *)
C28_NoRecordUnlessEndAfterStart ==
    /\ ~CagrRaised
    /\ pc = "cagr" => ~RaisesZeroDivision(script, Unified, start_year, end_year)
    /\ CagrDone =>
          /\ end_year <= start_year => CagrTable = <<>>
          /\ \A i \in 1..Len(CagrTable) :
                /\ CagrTable[i].years = end_year - start_year
                /\ CagrTable[i].years >= 1

(* a copy without the guard, called with end_year = start_year on a table  *)
(* whose cities have a row in that year: it returns an empty table         *)
C28_Witness ==
    /\ script \in SampleScripts
    /\ CagrDone
    /\ end_year = start_year
    /\ \A city \in CitiesOf(Unified) : Cardinality(InWindow(city)) = 1
    /\ CitiesOf(Unified) # {}
    /\ CagrTable = <<>>

(* a copy with the guard called with end_year < start_year, and a copy     *)
(* without the guard that returns records                                  *)
C28_EndBeforeStart ==
    /\ script \in FileScripts
    /\ CagrDone
    /\ end_year < start_year
    /\ CagrTable = <<>>

C28_RecordsOfSampleCopy ==
    /\ script \in SampleScripts
    /\ CagrDone
    /\ \E i \in 1..Len(CagrTable) : CagrTable[i].years = 5

----------------------------------------------------------------------------
(* Claims about gaps in the years *)

(* C29: a city has a growth record for each of its years but the first;    *)
(* the base of the record of year y is the city's row of the greatest year *)
(* below y, be it y - 1 or an earlier year, and each growth figure is      *)
(* ((mean of y / mean of the base year) - 1) * 100 when the mean of the    *)
(* base year is present and positive.                                      *)
C29_BaseIsThePrecedingRow ==
    GrowthDone =>
        \A city \in CitiesOf(Unified) :
            \A y \in YearsOf(Unified, city) :
                (\E z \in YearsOf(Unified, city) : z < y) =>
                    /\ Cardinality({i \in GrowthRecordsOf(city) : GrowthTable[i].year = y}) = 1
                    /\ \A i \in GrowthRecordsOf(city) : \A f \in GrowthFields :
                          LET base == YearlyMean(city, PreviousYear(city, y), f.of)
                              curr == YearlyMean(city, y, f.of)
                          IN  (GrowthTable[i].year = y /\ ~IsNaN(base) /\ Gt0(base)) =>
                                  GrowthTable[i][f.rate] =
                                      FMul(FSub(FDiv(curr, base), Flt(1)), Flt(100))

(* a city with rows for 2015, 2016 and 2018 and none for 2017: the record  *)
(* of 2018 reports the growth of the population from 4,100,000 in 2016 to  *)
(* 4,305,000, which is 5                                                   *)
C29_Witness ==
    /\ GrowthDone
    /\ \E i \in 1..Len(GrowthTable) :
          LET g == GrowthTable[i]
          IN  /\ YearsOf(Unified, g.city) = {2015, 2016, 2018}
              /\ g.year = 2018
              /\ YearlyMean(g.city, 2016, "population") = Flt(4100000)
              /\ g.avg_population = Flt(4305000)
              /\ g.population_growth = Flt(5)

----------------------------------------------------------------------------
(* Claims about the dashboard *)

SampleTables == {generate_sample_data(draw) : draw \in SampleDraws}

(* C30: in mexico_city_dashboard.py compile_data is called only when the   *)
(* four reads have returned and has_real_data is true; when a read has     *)
(* raised, the unified table is the one of generate_sample_data and        *)
(* compile_data is not called; and the unified table is defined when       *)
(* calculate_growth_rates and calculate_cagr are called.                   *)
C30_CompileOnlyWithRealData ==
    script = Dashboard =>
        /\ Called("compile_data") =>
              /\ has_real_data = "True"
              /\ \A source \in Sources : outcome[source] = "returned"
        /\ (\E source \in Sources : outcome[source] = "raised") =>
              /\ has_real_data = "False"
              /\ ~Called("compile_data")
              /\ city_data_df.defined
              /\ Unified \in SampleTables
        /\ (Called("calculate_growth_rates") \/ Called("calculate_cagr")) =>
              /\ city_data_df.defined
              /\ has_real_data = "True" <=> Called("compile_data")

(* the dashboard has run to its end on the synthetic table, the third read *)
(* having raised                                                           *)
C30_Witness ==
    /\ script = Dashboard
    /\ pc = "done"
    /\ outcome.population = "raised"
    /\ outcome.housing = "none"
    /\ has_real_data = "False"
    /\ Unified \in SampleTables
    /\ GrowthDone /\ CagrDone

(* the dashboard has run to its end on the table of compile_data *)
C30_RealData ==
    /\ script = Dashboard
    /\ pc = "done"
    /\ has_real_data = "True"
    /\ Compiled
    /\ GrowthDone /\ CagrDone

====
